---- MODULE Spec2Model ----
(***************************************************************************)
(* notato: the annotation store (AnnotationStore), its dirty tracking and  *)
(* snapshot/rollback state machine, the COCO document handler, and the     *)
(* application's load and save of a COCO folder.                           *)
(*                                                                         *)
(* Encoding of identifiers.  The store's generated box id `box_${n}` is    *)
(* the integer n >= 1; a caller-supplied id that is not of that form (a    *)
(* COCO annotation id k >= 1 carried on a loaded box) is the integer -k;   *)
(* an absent or falsy id (undefined, 0) is NoId.  The generated image id   *)
(* `img_${n}` is the integer n >= 1, null is NullId.                       *)
(***************************************************************************)
EXTENDS Integers, Sequences, FiniteSets, TLC

VARIABLES
    images,               \* state.images: image id -> image.boxes (ordered box ids)
    boxes,                \* state.boxes: box id -> box record
    currentImageId,       \* state.currentImageId
    currentImageModified, \* state.currentImageModified (the dirty flag)
    savedBoxesState,      \* the snapshot of the current image's boxes
    nextBoxId,            \* counter behind box_${n}
    nextImageId,          \* counter behind img_${n}
    listeners,            \* event -> registered callbacks, in registration order
    delivered,            \* callback invocations made by the last operation
    classes,              \* state.classes: class names, index = classId
    hist,                 \* observation only: what the current image's boxes
                          \* were when it was made current and when last saved
    coco,                 \* the COCOHandler object
    disk,                 \* the folder's annotation files: <<>>, or the one
                          \* document annotations.json holds
    firstLoad,            \* observation only: per image, the box values the
                          \* first load of the folder put in the store
    loads,                \* observation only: folder loads so far
    saves,                \* observation only: saves so far
    folder,               \* the opened folder's files behind the FileManager
    yolo,                 \* the YOLOHandler object
    ndjson,               \* the NDJSONHandler object
    result,               \* what the last load or save gave its caller
    inFlight              \* the handleSave / handleOpenFolder calls awaiting I/O

storeVars == <<images, boxes, currentImageId, currentImageModified,
               savedBoxesState, nextBoxId, nextImageId, listeners,
               delivered, classes, hist>>

codecVars == <<folder, yolo, ndjson, result, inFlight>>

appVars == <<coco, disk, firstLoad, loads, saves, codecVars>>

-----------------------------------------------------------------------------
(* Bounds of the model *)

\* the box editor: drags (mouse down to mouse up) of a session
MaxDrags == 2
\* the files of a folder whose label paths are compared
MaxFiles == 2
\* the callbacks registered for one event
MaxListeners == 3
\* the store: boxes held at once, and the highest generated box id
MaxBoxes == 1
MaxBoxId == 2
\* annotations of a document found on disk
MaxAnnotations == 2
\* boxes of one setBoxesForImage call on the handler alone
MaxInputBoxes == 2
\* the highest value of the handler's annotation counter
MaxAnnotationId == 4
\* saves and folder loads of the application run
MaxSaves == 1
MaxLoads == 2
\* the application with saves in flight: save requests made
MaxSaveRequests == 2
\* the YOLO handler: lines of a label file given to parse
MaxLines == 2
\* the NDJSON handler: names of a class list, indices of a class map
MaxClasses == 3

-----------------------------------------------------------------------------
(* Values *)

NullId == 0
NoId == 0

ImageIds == {1, 2}
\* an image id string that names no image of the store
UnknownImage == Cardinality(ImageIds) + 1

\* ids a caller may put on boxData.id: none (a drawn box), or the id a loaded
\* annotation carries, here one of the box_n form written by an earlier save
SuppliedBoxIds == {NoId, 2}

ClassIds == {0}
Events == {"classes", "images", "boxes", "currentImage", "modified", "clear"}

\* the geometry of a drawn or loaded box, and the property sets updateBox is
\* given (drag: x,y / resize and tests: x,width)
Geometries == {[x |-> 100, y |-> 150, width |-> 200, height |-> 250]}
Updates == {[x |-> 200, width |-> 300]}

EmptyMap == [k \in {} |-> 0]

-----------------------------------------------------------------------------
(* Helpers over sequences and maps *)

Range(seq) == {seq[i] : i \in 1..Len(seq)}

Includes(seq, v) == v \in Range(seq)

\* Map.set(k, v)
MapSet(m, k, v) == [x \in DOMAIN m \cup {k} |-> IF x = k THEN v ELSE m[x]]

\* Map.delete over a set of keys
MapDeleteAll(m, ks) == [x \in DOMAIN m \ ks |-> m[x]]

\* Object.assign(box, updates)
ObjectAssign(box, updates) ==
    [f \in DOMAIN box |-> IF f \in DOMAIN updates THEN updates[f] ELSE box[f]]

-----------------------------------------------------------------------------
(* The store as one record, so that each method is an operator on it *)

Store ==
    [images |-> images, boxes |-> boxes, currentImageId |-> currentImageId,
     currentImageModified |-> currentImageModified,
     savedBoxesState |-> savedBoxesState, nextBoxId |-> nextBoxId,
     nextImageId |-> nextImageId, listeners |-> listeners,
     classes |-> classes, delivered |-> <<>>]

NullSnapshot == [isNull |-> TRUE, boxes |-> <<>>]

\* notify(event, data): callbacks.forEach(callback => callback(data))
Notify(s, event) ==
    LET cbs == s.listeners[event]
        calls == [i \in 1..Len(cbs) |->
                    [cb |-> cbs[i], event |-> event,
                     modified |-> s.currentImageModified]]
    IN  [s EXCEPT !.delivered = @ \o calls]

\* markImageModified with the notification forgotten
MarkImageModifiedSilently(s, imageId) ==
    IF imageId = s.currentImageId
    THEN [s EXCEPT !.currentImageModified = TRUE]
    ELSE s

\* markImageModified without the check for the current image
MarkImageModifiedAlways(s, imageId) ==
    Notify([s EXCEPT !.currentImageModified = TRUE], "modified")

\* markImageModified(imageId): only the current image is tracked
MarkImageModified(s, imageId) ==
    IF imageId = s.currentImageId
    THEN Notify([s EXCEPT !.currentImageModified = TRUE], "modified")
    ELSE s

\* getBoxesForImage(imageId)
GetBoxesForImage(s, imageId) ==
    IF imageId \notin DOMAIN s.images THEN <<>>
    ELSE LET ids == SelectSeq(s.images[imageId],
                              LAMBDA id : id \in DOMAIN s.boxes)
         IN  [i \in 1..Len(ids) |-> s.boxes[ids[i]]]

\* the id addBox gives the box: boxData.id || `box_${this.nextBoxId++}`
AddBoxId(s, boxData) ==
    IF boxData.id # NoId THEN boxData.id ELSE s.nextBoxId

\* addBox(boxData)
AddBox(s, boxData) ==
    LET id == AddBoxId(s, boxData)
        s1 == IF boxData.id # NoId THEN s ELSE [s EXCEPT !.nextBoxId = @ + 1]
        box == [id |-> id, classId |-> boxData.classId, x |-> boxData.x,
                y |-> boxData.y, width |-> boxData.width,
                height |-> boxData.height, imageId |-> boxData.imageId]
        s2 == [s1 EXCEPT !.boxes = MapSet(@, id, box)]
        s3 == IF box.imageId \in DOMAIN s2.images
              THEN MarkImageModified(
                     [s2 EXCEPT !.images[box.imageId] =
                                   IF Includes(@, id) THEN @ ELSE Append(@, id)],
                     box.imageId)
              ELSE s2
    IN  Notify(s3, "boxes")

\* updateBox(boxId, updates)
UpdateBox(s, boxId, updates) ==
    IF boxId \notin DOMAIN s.boxes THEN s
    ELSE LET box == ObjectAssign(s.boxes[boxId], updates)
             s1 == [s EXCEPT !.boxes[boxId] = box]
         IN  Notify(MarkImageModified(s1, box.imageId), "boxes")

\* deleteBox(boxId)
DeleteBox(s, boxId) ==
    IF boxId \notin DOMAIN s.boxes THEN s
    ELSE LET box == s.boxes[boxId]
             s1 == IF box.imageId \in DOMAIN s.images
                   THEN MarkImageModified(
                          [s EXCEPT !.images[box.imageId] =
                                       SelectSeq(@, LAMBDA id : id # boxId)],
                          box.imageId)
                   ELSE s
             s2 == [s1 EXCEPT !.boxes = MapDeleteAll(@, {boxId})]
         IN  Notify(s2, "boxes")

\* saveCurrentImageState(): copies of the current image's boxes
SaveCurrentImageState(s) ==
    IF s.currentImageId = NullId THEN [s EXCEPT !.savedBoxesState = NullSnapshot]
    ELSE IF s.currentImageId \notin DOMAIN s.images
    THEN [s EXCEPT !.savedBoxesState = NullSnapshot]
    ELSE [s EXCEPT !.savedBoxesState =
                      [isNull |-> FALSE,
                       boxes |-> GetBoxesForImage(s, s.currentImageId)]]

\* discardCurrentImageEdits that only clears the flag and keeps the edits
DiscardFlagOnly(s) ==
    IF s.currentImageId = NullId \/ s.savedBoxesState.isNull THEN s
    ELSE IF s.currentImageId \notin DOMAIN s.images THEN s
    ELSE Notify(Notify([s EXCEPT !.currentImageModified = FALSE], "boxes"),
                "modified")

\* discardCurrentImageEdits(): drop the image's boxes, restore the snapshot
\* under newly generated ids
DiscardCurrentImageEdits(s) ==
    IF s.currentImageId = NullId \/ s.savedBoxesState.isNull THEN s
    ELSE IF s.currentImageId \notin DOMAIN s.images THEN s
    ELSE LET cur == s.currentImageId
             saved == s.savedBoxesState.boxes
             n == Len(saved)
             kept == MapDeleteAll(s.boxes, Range(s.images[cur]))
             newId(i) == s.nextBoxId + i - 1
             newIds == {newId(i) : i \in 1..n}
             restored == [id \in DOMAIN kept \cup newIds |->
                            IF id \in newIds
                            THEN [saved[id - s.nextBoxId + 1] EXCEPT !.id = id]
                            ELSE kept[id]]
             s1 == [s EXCEPT !.boxes = restored,
                             !.images[cur] = [i \in 1..n |-> newId(i)],
                             !.nextBoxId = @ + n,
                             !.currentImageModified = FALSE]
         IN  Notify(Notify(s1, "boxes"), "modified")

\* setCurrentImage(imageId)
SetCurrentImage(s, imageId) ==
    LET s1 == IF s.currentImageId # NullId /\ s.currentImageModified
              THEN DiscardCurrentImageEdits(s) ELSE s
        s2 == [s1 EXCEPT !.currentImageId = imageId,
                         !.currentImageModified = FALSE]
        s3 == SaveCurrentImageState(s2)
    IN  Notify(Notify(s3, "currentImage"), "modified")

\* clearImageModified that keeps the old snapshot
ClearFlagOnly(s) ==
    Notify([s EXCEPT !.currentImageModified = FALSE], "modified")

\* clearImageModified()
ClearImageModified(s) ==
    LET s1 == SaveCurrentImageState([s EXCEPT !.currentImageModified = FALSE])
    IN  Notify(s1, "modified")

\* addImage(imageData), imageData without id and without boxes
AddImage(s) ==
    LET id == s.nextImageId
        s1 == [s EXCEPT !.nextImageId = @ + 1,
                        !.images = MapSet(@, id, <<>>)]
    IN  Notify(s1, "images")

\* clear()
Clear(s) ==
    Notify([s EXCEPT !.images = EmptyMap, !.boxes = EmptyMap,
                     !.classes = <<>>,
                     !.currentImageId = NullId,
                     !.currentImageModified = FALSE,
                     !.savedBoxesState = NullSnapshot,
                     !.nextBoxId = 1, !.nextImageId = 1], "clear")

\* setClasses(classes)
SetClasses(s, cls) == Notify([s EXCEPT !.classes = cls], "classes")

\* on(event, callback)
On(s, event, callback) ==
    [s EXCEPT !.listeners[event] = Append(@, callback)]

\* the callbacks UIController registers when the application is constructed
UIListeners ==
    LET s0 == [listeners |-> [e \in Events |-> <<>>]]
        s1 == On(s0, "classes", "updateClassUI")
        s2 == On(s1, "images", "updateFileList")
        s3 == On(s2, "currentImage", "updateCurrentImageUI")
        s4 == On(s3, "boxes", "updateAnnotationCount")
        s5 == On(s4, "modified", "updateSaveButton")
    IN  s5.listeners

-----------------------------------------------------------------------------
(* Observation of the run *)

\* the values of a list of boxes, ids left out
BoxValues(bs) ==
    [i \in 1..Len(bs) |->
        [classId |-> bs[i].classId, x |-> bs[i].x, y |-> bs[i].y,
         width |-> bs[i].width, height |-> bs[i].height,
         imageId |-> bs[i].imageId]]

\* first: the current image's box values when it was made current
\* base: those values at the last clearImageModified(), else first
\* cleared: clearImageModified() has run since the image was made current
\* own: since then every edit was an add/update/delete of a box of that image
\* left: how the last setCurrentImage left the previous image
NoHist == [first |-> <<>>, base |-> <<>>, cleared |-> FALSE, own |-> FALSE,
           left |-> "none"]

Commit(s) ==
    /\ images' = s.images
    /\ boxes' = s.boxes
    /\ currentImageId' = s.currentImageId
    /\ currentImageModified' = s.currentImageModified
    /\ savedBoxesState' = s.savedBoxesState
    /\ nextBoxId' = s.nextBoxId
    /\ nextImageId' = s.nextImageId
    /\ listeners' = s.listeners
    /\ classes' = s.classes
    /\ delivered' = s.delivered

\* an edit of a box of the current image leaves the observation as it is; any
\* other operation ends the run of own edits, and nothing more is recorded
Edited(own) ==
    hist' = IF hist.own /\ own THEN [hist EXCEPT !.left = "none"] ELSE NoHist

-----------------------------------------------------------------------------
(* The COCO handler (COCOHandler.js).                                       *)
(*                                                                          *)
(* An annotation id is a JSON value: the number k >= 0 is the integer k,    *)
(* the string `box_${n}` (a store-generated id written by a save) is the    *)
(* integer -(n + 1).  A box handed to setBoxesForImage either has the       *)
(* field id or does not have it.  NaN, which Math.max gives the counters    *)
(* when an id is such a string, is the integer -1.                          *)

NaN == 0 - 1

IsIdString(id) == id < NaN

\* Math.max(0, ...values)
MathMax0(values) ==
    IF \E v \in values : IsIdString(v) THEN NaN
    ELSE CHOOSE m \in values \cup {0} : \A v \in values \cup {0} : v <= m

\* n + 1 and n++ on a counter
PlusOne(n) == IF n = NaN THEN NaN ELSE n + 1

\* the constructor, and initEmpty()
COCO_initEmpty ==
    [data |-> [images |-> <<>>, annotations |-> <<>>, categories |-> <<>>],
     nextImageId |-> 1, nextAnnotationId |-> 1, imageIdMap |-> EmptyMap]

\* images.forEach(img => imageIdMap.set(img.file_name, img.id))
RECURSIVE BuildImageIdMap(_, _)
BuildImageIdMap(imgs, map) ==
    IF imgs = <<>> THEN map
    ELSE BuildImageIdMap(Tail(imgs),
                         MapSet(map, Head(imgs).file_name, Head(imgs).id))

\* parse(content), content a document with its three arrays
COCO_parse(h, doc) ==
    [data |-> doc,
     imageIdMap |-> BuildImageIdMap(doc.images, EmptyMap),
     nextImageId |->
        PlusOne(MathMax0({doc.images[i].id : i \in 1..Len(doc.images)})),
     nextAnnotationId |->
        PlusOne(MathMax0({doc.annotations[i].id :
                            i \in 1..Len(doc.annotations)}))]

\* getBoxesForImage(fileName)
COCO_getBoxesForImage(h, fileName) ==
    IF fileName \notin DOMAIN h.imageIdMap THEN <<>>
    ELSE LET imageId == h.imageIdMap[fileName]
             anns == SelectSeq(h.data.annotations,
                            LAMBDA ann : ann.image_id = imageId)
         IN  [i \in 1..Len(anns) |->
                [id |-> anns[i].id, classId |-> anns[i].category_id,
                 x |-> anns[i].bbox[1], y |-> anns[i].bbox[2],
                 width |-> anns[i].bbox[3], height |-> anns[i].bbox[4]]]

\* addImage(fileName, width, height)
COCO_addImage(h, fileName) ==
    [h EXCEPT !.nextImageId = PlusOne(@),
              !.data.images = Append(@, [id |-> h.nextImageId,
                                         file_name |-> fileName]),
              !.imageIdMap = MapSet(@, fileName, h.nextImageId)]

\* box.id || ..., the left operand taken
HasTruthyId(box) == "id" \in DOMAIN box /\ box.id # 0

\* boxes.forEach(box => annotations.push({id: box.id || nextAnnotationId++, ...}))
RECURSIVE PushAnnotations(_, _, _)
PushAnnotations(h, imageId, bs) ==
    IF bs = <<>> THEN h
    ELSE LET box == Head(bs)
             annotation ==
                [id |-> IF HasTruthyId(box) THEN box.id
                        ELSE h.nextAnnotationId,
                 image_id |-> imageId,
                 category_id |-> box.classId,
                 bbox |-> <<box.x, box.y, box.width, box.height>>,
                 area |-> box.width * box.height,
                 iscrowd |-> 0]
             h1 == [h EXCEPT !.nextAnnotationId =
                                IF HasTruthyId(box) THEN @ ELSE PlusOne(@),
                             !.data.annotations = Append(@, annotation)]
         IN  PushAnnotations(h1, imageId, Tail(bs))

\* setBoxesForImage(fileName, boxes, imageWidth, imageHeight)
COCO_setBoxesForImage(h, fileName, bs) ==
    LET found == fileName \in DOMAIN h.imageIdMap
        \* if (!imageId)
        missing == ~found \/ h.imageIdMap[fileName] = 0
        h1 == IF missing THEN COCO_addImage(h, fileName) ELSE h
        imageId == IF missing THEN h.nextImageId ELSE h.imageIdMap[fileName]
        h2 == [h1 EXCEPT !.data.annotations =
                  SelectSeq(@, LAMBDA ann : ann.image_id # imageId)]
    IN  PushAnnotations(h2, imageId, bs)

\* setCategories(categories)
COCO_setCategories(h, categories) == [h EXCEPT !.data.categories = categories]

-----------------------------------------------------------------------------
(* Inputs of the COCO handler and of the application *)

\* the image files of the opened folder, in the order openFolder lists them;
\* a fresh store names them img_1, img_2
Files == <<"a.jpg", "b.jpg">>

FileNameOf(imageId) == Files[imageId]

SeqsUpTo(S, n) == UNION {[1..k -> S] : k \in 0..n}

\* a document over the two files with two categories: its ids count from
\* base (0 or 1); anns gives for each annotation its image and its category
\* as offsets from base
Document(base, anns) ==
    [images |-> [i \in 1..Len(Files) |->
                    [id |-> base + i - 1, file_name |-> Files[i]]],
     annotations |-> [i \in 1..Len(anns) |->
                        [id |-> base + i - 1,
                         image_id |-> base + anns[i].img,
                         category_id |-> base + anns[i].cat,
                         bbox |-> <<100, 150, 200, 250>>,
                         area |-> 50000,
                         iscrowd |-> 0]],
     categories |-> <<[id |-> base, name |-> "person"],
                      [id |-> base + 1, name |-> "car"]>>]

Documents ==
    {Document(base, anns) :
        base \in {0, 1},
        anns \in SeqsUpTo([img : {0, 1}, cat : {0, 1}], MaxAnnotations)}

\* the boxes a caller hands to setBoxesForImage: without id, with id 0, with
\* an id the counter has not reached and with one far beyond it
InputBox(g) == [classId |-> 1, x |-> g.x, y |-> g.y, width |-> g.width,
                height |-> g.height]

InputBoxWithId(id, g) ==
    [id |-> id, classId |-> 1, x |-> g.x, y |-> g.y, width |-> g.width,
     height |-> g.height]

InputBoxes ==
    {InputBox(g) : g \in Geometries}
        \cup {InputBoxWithId(id, g) : id \in {0, 2, 42}, g \in Geometries}

\* the id of a loaded box as the store's addBox sees it, and the id of a
\* store box as setBoxesForImage sees it: the same JavaScript value, in the
\* other encoding
AsBoxId(annotationId) ==
    IF annotationId = 0 THEN NoId
    ELSE IF IsIdString(annotationId) THEN (0 - annotationId) - 1
    ELSE 0 - annotationId

AsAnnotationId(boxId) ==
    IF boxId > 0 THEN 0 - (boxId + 1) ELSE 0 - boxId

-----------------------------------------------------------------------------
(* The application around the store and the COCO handler (main.js) *)

\* for (const file of files) store.addImage({fileName: file.name, ...})
RECURSIVE AddImages(_, _)
AddImages(s, n) == IF n = 0 THEN s ELSE AddImages(AddImage(s), n - 1)

\* boxes.forEach(box => store.addBox({...box, imageId: image.id}))
RECURSIVE AddLoadedBoxes(_, _, _)
AddLoadedBoxes(s, bs, imageId) ==
    IF bs = <<>> THEN s
    ELSE LET box == Head(bs)
             boxData == [id |-> AsBoxId(box.id), classId |-> box.classId,
                         x |-> box.x, y |-> box.y, width |-> box.width,
                         height |-> box.height, imageId |-> imageId]
         IN  AddLoadedBoxes(AddBox(s, boxData), Tail(bs), imageId)

\* for (const image of images) { getBoxesForImage(image.fileName) ... },
\* over the images img_from .. img_n of the store
RECURSIVE LoadImagesBoxes(_, _, _)
LoadImagesBoxes(s, h, from) ==
    IF from \notin DOMAIN s.images THEN s
    ELSE LoadImagesBoxes(
            AddLoadedBoxes(s, COCO_getBoxesForImage(h, FileNameOf(from)), from),
            h, from + 1)

\* loadCOCOAnnotations(): [store, handler]
LoadCOCOAnnotations(s, h, files) ==
    IF files # <<>>
    THEN LET h1 == COCO_parse(h, files[1])
             categories == h1.data.categories
             s1 == IF Len(categories) > 0
                   THEN SetClasses(s, [i \in 1..Len(categories) |->
                                          categories[i].name])
                   ELSE s
         IN  [store |-> LoadImagesBoxes(s1, h1, 1), handler |-> h1]
    ELSE [store |-> SetClasses(s, <<"object">>), handler |-> COCO_initEmpty]

\* handleOpenFolder() with the COCO format selected: the images, the
\* annotations, then loadImage of the first image
HandleOpenFolder(s, h, files) ==
    LET loaded == LoadCOCOAnnotations(AddImages(s, Len(Files)), h, files)
    IN  [loaded EXCEPT !.store = SetCurrentImage(@, 1)]

\* boxes.map(box => ({...box, classId: box.classId + 1}))
CocoBoxes(bs) ==
    [i \in 1..Len(bs) |->
        [id |-> AsAnnotationId(bs[i].id), classId |-> bs[i].classId + 1,
         x |-> bs[i].x, y |-> bs[i].y, width |-> bs[i].width,
         height |-> bs[i].height]]

\* for (const image of images) cocoHandler.setBoxesForImage(image.fileName, ...)
RECURSIVE SaveImagesBoxes(_, _, _)
SaveImagesBoxes(s, h, from) ==
    IF from \notin DOMAIN s.images THEN h
    ELSE SaveImagesBoxes(
            s,
            COCO_setBoxesForImage(h, FileNameOf(from),
                                  CocoBoxes(GetBoxesForImage(s, from))),
            from + 1)

\* images.forEach(img => store.clearImageModified(img.id))
RECURSIVE ClearImagesModified(_, _)
ClearImagesModified(s, n) ==
    IF n = 0 THEN s ELSE ClearImagesModified(ClearImageModified(s), n - 1)

\* saveCOCO(): [store, handler, files], files the folder after the write of
\* annotations.json
SaveCOCO(s, h) ==
    LET cocoCategories ==
            [i \in 1..Len(s.classes) |-> [id |-> i, name |-> s.classes[i]]]
        h1 == SaveImagesBoxes(s, COCO_setCategories(h, cocoCategories), 1)
    IN  [store |-> ClearImagesModified(s, Cardinality(DOMAIN s.images)),
         handler |-> h1,
         files |-> <<h1.data>>]

\* handleSave() with the COCO format selected and an image loaded
HandleSave(s, h) ==
    LET saved == SaveCOCO(s, h)
    IN  [saved EXCEPT !.store = ClearImageModified(@)]

\* the set of {classId, x, y, width, height} of a list of boxes
ValueSet(bs) ==
    {[classId |-> bs[i].classId, x |-> bs[i].x, y |-> bs[i].y,
      width |-> bs[i].width, height |-> bs[i].height] : i \in 1..Len(bs)}

\* per image of the store, the value set of its boxes
LoadedValues(s) ==
    [img \in DOMAIN s.images |-> ValueSet(GetBoxesForImage(s, img))]

-----------------------------------------------------------------------------
(* The folder behind the FileManager (FileManager.js).                      *)
(*                                                                          *)
(* A text file is the list of its lines; the empty string is the empty      *)
(* list.  readTextFile gives null for a file that is not there and for a    *)
(* file whose read fails; its callers only test `if (content)`, so null is  *)
(* the empty list too.                                                      *)

\* a folder with the image files only: per kind of file, path -> content
EmptyFolder ==
    [ndjson |-> EmptyMap, classes |-> EmptyMap, labels |-> EmptyMap,
     coco |-> EmptyMap]

\* readTextFile(fileName) over the files of one kind; unreadable are the
\* files whose getFile() or text() rejects
ReadTextFile(files, fileName, unreadable) ==
    IF fileName \in DOMAIN files /\ fileName \notin unreadable
    THEN files[fileName]
    ELSE <<>>

\* fileExists(filePath)
FileExists(files, filePath) == filePath \in DOMAIN files

\* what a load or save gave its caller: nothing yet
NoResult == [op |-> "none", thrown |-> FALSE, boxes |-> EmptyMap,
             classes |-> <<>>]

-----------------------------------------------------------------------------
(* Numbers of the codecs.                                                   *)
(*                                                                          *)
(* A normalized coordinate is an integer number of millionths (0.5 is       *)
(* 500000); a pixel coordinate of a codec box is an integer number of       *)
(* thousandths of a pixel (192 px is 192000).  Image sizes are whole        *)
(* pixels.  The inputs are chosen so that every product and half below is   *)
(* exact.  NotANumber is NaN, which every operation hands on.               *)

NotANumber == 0 - 2000000000

IsNaN(v) == v = NotANumber

\* a * b
Times(a, b) == IF IsNaN(a) \/ IsNaN(b) THEN NotANumber ELSE a * b

\* a - b
Minus(a, b) == IF IsNaN(a) \/ IsNaN(b) THEN NotANumber ELSE a - b

\* a / b for a whole b that divides a
DividedBy(a, b) == IF IsNaN(a) THEN NotANumber ELSE a \div b

\* the nearest whole number to a / b (b > 0), halves upward
RoundDiv(a, b) == (2 * a + b) \div (2 * b)

NormalizedToPixelsOfCentre(n, imageWidth, imageHeight) ==
    [x |-> DividedBy(Times(n.centerX, imageWidth), 1000),
     y |-> DividedBy(Times(n.centerY, imageHeight), 1000),
     width |-> DividedBy(Times(n.width, imageWidth), 1000),
     height |-> DividedBy(Times(n.height, imageHeight), 1000)]

\* normalizedToPixels(normalized, imageWidth, imageHeight)
NormalizedToPixels(n, imageWidth, imageHeight) ==
    LET width == DividedBy(Times(n.width, imageWidth), 1000)
        height == DividedBy(Times(n.height, imageHeight), 1000)
        centerX == DividedBy(Times(n.centerX, imageWidth), 1000)
        centerY == DividedBy(Times(n.centerY, imageHeight), 1000)
    IN  [x |-> Minus(centerX, DividedBy(width, 2)),
         y |-> Minus(centerY, DividedBy(height, 2)),
         width |-> width, height |-> height]

\* Math.max(0, Math.min(1, (start + size / 2) / imageSize)) rounded to
\* a multiple of unit millionths (toFixed); Math.min and Math.max hand a
\* NaN on
NormalizedCenter(start, size, imageSize, unit) ==
    LET twice == 2 * start + size
    IN  IF IsNaN(start) \/ IsNaN(size) THEN NotANumber
        ELSE IF twice <= 0 THEN 0
        ELSE IF twice >= 2000 * imageSize THEN 1000000
        ELSE unit * RoundDiv(twice * 500, imageSize * unit)

\* Math.max(0, Math.min(1, size / imageSize)) rounded likewise
NormalizedSize(size, imageSize, unit) ==
    IF IsNaN(size) THEN NotANumber
    ELSE IF size <= 0 THEN 0
    ELSE IF size >= 1000 * imageSize THEN 1000000
    ELSE unit * RoundDiv(size * 1000, imageSize * unit)

\* pixelsToNormalized(box, imageWidth, imageHeight), then toFixed on each
PixelsToNormalized(box, imageWidth, imageHeight, unit) ==
    [centerX |-> NormalizedCenter(box.x, box.width, imageWidth, unit),
     centerY |-> NormalizedCenter(box.y, box.height, imageHeight, unit),
     width |-> NormalizedSize(box.width, imageWidth, unit),
     height |-> NormalizedSize(box.height, imageHeight, unit)]

\* Math.max(...values): -Infinity for no values, which ends every loop
\* `i <= max` at once, as -1 does
MathMax(values) ==
    IF values = {} THEN 0 - 1
    ELSE CHOOSE m \in values : \A v \in values : v <= m

\* `class_${i}`
ClassName(i) == IF IsNaN(i) THEN "class_NaN" ELSE "class_" \o ToString(i)

\* the images handleOpenFolder hands to load: the files of the folder as the
\* store names them
ImageWidth == 1000
ImageHeight == 800

Image(imageId) ==
    [id |-> imageId, fileName |-> FileNameOf(imageId),
     width |-> ImageWidth, height |-> ImageHeight]

FolderImages == [i \in 1..Len(Files) |-> Image(i)]

-----------------------------------------------------------------------------
(* The YOLO handler (YOLOHandler.js) *)

(*                                                                          *)
(* A label file is the list of its lines and a line the list of its         *)
(* whitespace-separated fields (none for a blank line).  A field is a whole *)
(* number ("int", v the number), a decimal ("dec", v its millionths) or     *)
(* something that is not a number ("word").  classes.txt is the list of     *)
(* its trimmed lines, "" for a blank one.                                   *)

IntField(v) == [kind |-> "int", v |-> v]
DecField(v) == [kind |-> "dec", v |-> v]
WordField == [kind |-> "word", v |-> 0]

\* value.toFixed(6) as a field: 'NaN' for NaN
FixedField(v) == IF IsNaN(v) THEN WordField ELSE DecField(v)

\* parseInt(field)
ParseInt(field) ==
    CASE field.kind = "int" -> field.v
      [] field.kind = "dec" -> field.v \div 1000000
      [] OTHER -> NotANumber

\* parseFloat(field), in millionths
ParseFloat(field) ==
    CASE field.kind = "int" -> field.v * 1000000
      [] field.kind = "dec" -> field.v
      [] OTHER -> NotANumber

\* the constructor
YOLO_constructor == [classes |-> <<>>]

\* this.classes[classId] || `class_${classId}`
YOLO_className(h, classId) ==
    IF ~IsNaN(classId) /\ classId >= 0 /\ classId < Len(h.classes)
    THEN h.classes[classId + 1]
    ELSE ClassName(classId)

\* the box parse() pushes for a line of five fields or more
YOLO_parseLine(h, parts, imageWidth, imageHeight) ==
    LET classId == ParseInt(parts[1])
        box == NormalizedToPixels(
                  [centerX |-> ParseFloat(parts[2]),
                   centerY |-> ParseFloat(parts[3]),
                   width |-> ParseFloat(parts[4]),
                   height |-> ParseFloat(parts[5])],
                  imageWidth, imageHeight)
    IN  [classId |-> classId, className |-> YOLO_className(h, classId),
         x |-> box.x, y |-> box.y, width |-> box.width,
         height |-> box.height]

\* parse(content, imageWidth, imageHeight)
YOLO_parse(h, content, imageWidth, imageHeight) ==
    LET lines == SelectSeq(content, LAMBDA line : line # <<>>)
        kept == SelectSeq(lines, LAMBDA parts : ~(Len(parts) < 5))
    IN  [i \in 1..Len(kept) |->
            YOLO_parseLine(h, kept[i], imageWidth, imageHeight)]

\* stringify(boxes, imageWidth, imageHeight): toFixed(6); the text of no
\* lines is the empty string
YOLO_stringify(bs, imageWidth, imageHeight) ==
    [i \in 1..Len(bs) |->
        LET normalized == PixelsToNormalized(bs[i], imageWidth, imageHeight, 1)
        IN  <<IF IsNaN(bs[i].classId) THEN WordField
              ELSE IntField(bs[i].classId),
              FixedField(normalized.centerX), FixedField(normalized.centerY),
              FixedField(normalized.width), FixedField(normalized.height)>>]

\* parseClasses(content): [handler, classes]
YOLO_parseClasses(h, content) ==
    LET cls == SelectSeq(content, LAMBDA line : line # "")
    IN  [handler |-> [h EXCEPT !.classes = cls], classes |-> cls]

\* stringifyClasses(classes): classes.join('\n') + '\n'
YOLO_stringifyClasses(cls) == IF cls = <<>> THEN <<"">> ELSE cls

\* getLabelPath(imagePath): the base name of the file, then '.txt'
BaseNameOf(imagePath) ==
    CASE imagePath = "a.jpg" -> "a"
      [] imagePath = "b.jpg" -> "b"
      [] imagePath = "c.jpg" -> "c"

YOLO_getLabelPath(imagePath) == BaseNameOf(imagePath) \o ".txt"

\* Math.max(0, ...values)
MathMaxOr0(values) ==
    IF \E v \in values : IsNaN(v) THEN NotANumber
    ELSE MathMax(values \cup {0})

\* Array.from(boxes.values()).flat().map(b => b.classId)
AllClassIds(boxesOf) ==
    UNION {{boxesOf[id][k].classId : k \in 1..Len(boxesOf[id])} :
             id \in DOMAIN boxesOf}

\* the label files load() reads, image by image: image id -> boxes
YOLO_loadBoxes(h, folderFiles, imgs, unreadable) ==
    LET contentOf(i) == ReadTextFile(folderFiles.labels,
                                     YOLO_getLabelPath(imgs[i].fileName),
                                     unreadable)
        withContent == {i \in 1..Len(imgs) : contentOf(i) # <<>>}
    IN  [id \in {imgs[i].id : i \in withContent} |->
            LET i == CHOOSE j \in withContent : imgs[j].id = id
            IN  YOLO_parse(h, contentOf(i), imgs[i].width, imgs[i].height)]

\* load(fileManager, images): [handler, boxes, classes]
YOLO_load(h, folderFiles, imgs, unreadable) ==
    LET atRoot == ReadTextFile(folderFiles.classes, "classes.txt", unreadable)
        classesContent ==
            IF atRoot # <<>> THEN atRoot
            ELSE ReadTextFile(folderFiles.classes, "labels/classes.txt",
                              unreadable)
        read == IF classesContent # <<>>
                THEN YOLO_parseClasses(h, classesContent).classes
                ELSE <<"object">>
        h1 == [h EXCEPT !.classes = read]
        loadedBoxes == YOLO_loadBoxes(h1, folderFiles, imgs, unreadable)
        maxClassId == MathMaxOr0(AllClassIds(loadedBoxes))
        inferred == Len(read) = 1 /\ ~IsNaN(maxClassId) /\ maxClassId > 0
        cls == IF inferred
               THEN [k \in 1..(maxClassId + 1) |-> ClassName(k - 1)]
               ELSE read
    IN  [handler |-> [h1 EXCEPT !.classes = cls],
         boxes |-> loadedBoxes,
         classes |-> cls]

\* save(fileManager, image, boxes, classes): [handler, files, thrown], files
\* the folder afterwards; failing holds the writes that throw, of "label"
\* and "classes"
YOLO_save(h, folderFiles, image, bs, cls, failing) ==
    LET labelPath == YOLO_getLabelPath(image.fileName)
        content == YOLO_stringify(bs, image.width, image.height)
        written == [folderFiles EXCEPT !.labels = MapSet(@, labelPath, content)]
        classesExist == FileExists(folderFiles.classes, "classes.txt")
        h1 == [h EXCEPT !.classes = cls]
    IN  IF "label" \in failing
        THEN [handler |-> h, files |-> folderFiles, thrown |-> TRUE]
        ELSE IF classesExist
        THEN [handler |-> h, files |-> written, thrown |-> FALSE]
        ELSE IF "classes" \in failing
        THEN [handler |-> h1, files |-> written, thrown |-> TRUE]
        ELSE [handler |-> h1,
              files |-> [written EXCEPT !.classes =
                            MapSet(@, "classes.txt",
                                   YOLO_stringifyClasses(cls))],
              thrown |-> FALSE]

-----------------------------------------------------------------------------
(* The NDJSON handler (NDJSONHandler.js) *)

\* this.dataset = null
NullRecord == [type |-> "null"]

\* the constructor
NDJSON_constructor ==
    [dataset |-> NullRecord, imageRecords |-> EmptyMap,
     annotationFile |-> "dataset.ndjson"]

\* {type: 'dataset', task: 'detect', class_names: classNames}
DatasetRecord(classNames) ==
    [type |-> "dataset", task |-> "detect", class_names |-> classNames]

\* initEmpty()
NDJSON_initEmpty(h) ==
    [h EXCEPT !.dataset = DatasetRecord(EmptyMap), !.imageRecords = EmptyMap]

\* classNamesToArray(classNames), classNames an object with numeric keys
NDJSON_classNamesToArray(classNames) ==
    LET maxIndex == MathMax(DOMAIN classNames)
    IN  [k \in 1..(maxIndex + 1) |->
            IF (k - 1) \in DOMAIN classNames /\ classNames[k - 1] # ""
            THEN classNames[k - 1]
            ELSE ClassName(k - 1)]

NDJSON_arrayToClassNamesFromOne(cls) ==
    [index \in 1..Len(cls) |-> cls[index]]

\* arrayToClassNames(classes)
NDJSON_arrayToClassNames(cls) ==
    [index \in 0..(Len(cls) - 1) |-> cls[index + 1]]

\* the loop of parse(content) over the lines: a line that JSON.parse rejects
\* and a record of another type change nothing
RECURSIVE ParseLines(_, _)
ParseLines(h, lines) ==
    IF lines = <<>> THEN h
    ELSE LET record == Head(lines)
             h1 == IF record.type = "dataset"
                   THEN [h EXCEPT !.dataset = record]
                   ELSE IF record.type = "image"
                   THEN [h EXCEPT !.imageRecords =
                                     MapSet(@, record.file, record)]
                   ELSE h
         IN  ParseLines(h1, Tail(lines))

NDJSON_parseUntilBadLine(h, content) ==
    LET bad == {i \in 1..Len(content) :
                  content[i].type \notin {"dataset", "image"}}
        good == IF bad = {} THEN content
                ELSE SubSeq(content, 1,
                            (CHOOSE i \in bad : \A j \in bad : i <= j) - 1)
        h1 == ParseLines([h EXCEPT !.dataset = NullRecord,
                                   !.imageRecords = EmptyMap], good)
    IN  IF h1.dataset = NullRecord
        THEN [h1 EXCEPT !.dataset = DatasetRecord(EmptyMap)]
        ELSE h1

\* parse(content)
NDJSON_parse(h, content) ==
    LET h1 == ParseLines([h EXCEPT !.dataset = NullRecord,
                                   !.imageRecords = EmptyMap], content)
    IN  IF h1.dataset = NullRecord
        THEN [h1 EXCEPT !.dataset = DatasetRecord(EmptyMap)]
        ELSE h1

NDJSON_parseBoxesTopLeft(ndjsonBoxes, imageWidth, imageHeight) ==
    LET kept == SelectSeq(ndjsonBoxes, LAMBDA boxData : Len(boxData) >= 5)
    IN  [i \in 1..Len(kept) |->
            [classId |-> kept[i][1],
             x |-> DividedBy(Times(kept[i][2], imageWidth), 1000),
             y |-> DividedBy(Times(kept[i][3], imageHeight), 1000),
             width |-> DividedBy(Times(kept[i][4], imageWidth), 1000),
             height |-> DividedBy(Times(kept[i][5], imageHeight), 1000)]]

\* parseBoxes(ndjsonBoxes, imageWidth, imageHeight)
NDJSON_parseBoxes(ndjsonBoxes, imageWidth, imageHeight) ==
    LET kept == SelectSeq(ndjsonBoxes, LAMBDA boxData : Len(boxData) >= 5)
    IN  [i \in 1..Len(kept) |->
            LET box == NormalizedToPixels(
                          [centerX |-> kept[i][2], centerY |-> kept[i][3],
                           width |-> kept[i][4], height |-> kept[i][5]],
                          imageWidth, imageHeight)
            IN  [classId |-> kept[i][1], x |-> box.x, y |-> box.y,
                 width |-> box.width, height |-> box.height]]

\* stringifyBoxes(boxes, imageWidth, imageHeight): toFixed(5)
NDJSON_stringifyBoxes(bs, imageWidth, imageHeight) ==
    [i \in 1..Len(bs) |->
        LET normalized ==
                PixelsToNormalized(bs[i], imageWidth, imageHeight, 10)
        IN  <<bs[i].classId, normalized.centerX, normalized.centerY,
              normalized.width, normalized.height>>]

\* the names load() probes, in order
NDJSON_possibleNames ==
    <<"dataset.ndjson", "annotations.ndjson", "data.ndjson",
      "dataset.json", "annotations.json", "data.json">>

\* the loop over allPossibleNames: the first name whose content is truthy
FoundNames(files, names, unreadable) ==
    SelectSeq(names,
              LAMBDA name : ReadTextFile(files, name, unreadable) # <<>>)

\* has the image a record with annotations.boxes
HasBoxes(h, fileName) ==
    /\ fileName \in DOMAIN h.imageRecords
    /\ "annotations" \in DOMAIN h.imageRecords[fileName]

\* load(fileManager, images): [handler, boxes, classes]
NDJSON_load(h, files, imgs, unreadable) ==
    LET found == FoundNames(files, NDJSON_possibleNames, unreadable)
    IN  IF found # <<>>
        THEN LET h1 == NDJSON_parse([h EXCEPT !.annotationFile = found[1]],
                                    files[found[1]])
                 cls == IF "class_names" \in DOMAIN h1.dataset
                        THEN NDJSON_classNamesToArray(h1.dataset.class_names)
                        ELSE <<"object">>
                 withBoxes == {i \in 1..Len(imgs) :
                                  HasBoxes(h1, imgs[i].fileName)}
             IN  [handler |-> h1,
                  boxes |-> [id \in {imgs[i].id : i \in withBoxes} |->
                               LET image == CHOOSE im \in Range(imgs) :
                                                im.id = id
                               IN  NDJSON_parseBoxes(
                                      h1.imageRecords[image.fileName]
                                        .annotations.boxes,
                                      image.width, image.height)],
                  classes |-> cls]
        ELSE [handler |-> NDJSON_initEmpty(
                             [h EXCEPT !.annotationFile = "dataset.ndjson"]),
              boxes |-> EmptyMap,
              classes |-> <<"object">>]

\* the file names in the order Array.sort() gives them
SortedFileNames == <<"a.jpg", "b.jpg", "c.jpg">>

NDJSON_stringifyDatasetLast(h) ==
    LET sortedFiles == SelectSeq(SortedFileNames,
                                 LAMBDA f : f \in DOMAIN h.imageRecords)
    IN  [i \in 1..Len(sortedFiles) |-> h.imageRecords[sortedFiles[i]]]
        \o (IF h.dataset = NullRecord THEN <<>> ELSE <<h.dataset>>)

\* stringify(): the dataset record, then the image records by file name
NDJSON_stringify(h) ==
    LET sortedFiles == SelectSeq(SortedFileNames,
                                 LAMBDA f : f \in DOMAIN h.imageRecords)
    IN  (IF h.dataset = NullRecord THEN <<>> ELSE <<h.dataset>>)
        \o [i \in 1..Len(sortedFiles) |-> h.imageRecords[sortedFiles[i]]]

\* the image record save() builds, with the url and split of the record
\* the handler has for the file
SavedImageRecord(h, image, bs) ==
    LET imageRecord ==
            [type |-> "image", file |-> image.fileName,
             width |-> image.width, height |-> image.height,
             annotations |->
                [boxes |-> NDJSON_stringifyBoxes(bs, image.width,
                                                 image.height)]]
        existing == IF image.fileName \in DOMAIN h.imageRecords
                    THEN h.imageRecords[image.fileName]
                    ELSE imageRecord
        kept == {f \in {"url", "split"} : f \in DOMAIN existing}
    IN  [f \in DOMAIN imageRecord \cup kept |->
            IF f \in kept THEN existing[f] ELSE imageRecord[f]]

\* save(fileManager, image, boxes, classes) up to the write: the handler
\* and the content handed to writeTextFile
NDJSON_save(h, image, bs, cls) ==
    LET h1 == IF h.dataset = NullRecord
              THEN [h EXCEPT !.dataset =
                               DatasetRecord(NDJSON_arrayToClassNames(cls))]
              ELSE [h EXCEPT !.dataset =
                               [f \in DOMAIN h.dataset \cup {"class_names"} |->
                                   IF f = "class_names"
                                   THEN NDJSON_arrayToClassNames(cls)
                                   ELSE h.dataset[f]]]
        h2 == [h1 EXCEPT !.imageRecords =
                            MapSet(@, image.fileName,
                                   SavedImageRecord(h, image, bs))]
    IN  [handler |-> h2, content |-> NDJSON_stringify(h2)]

-----------------------------------------------------------------------------
(* The store's operations as actions *)

\* new AnnotationStore(), with the listeners of new UIController(store, ...)
NewStore ==
    [images |-> EmptyMap, boxes |-> EmptyMap, currentImageId |-> NullId,
     currentImageModified |-> FALSE, savedBoxesState |-> NullSnapshot,
     nextBoxId |-> 1, nextImageId |-> 1, listeners |-> UIListeners,
     classes |-> <<>>, delivered |-> <<>>]

\* the state is the store s, new handlers and an empty folder; nothing
\* observed yet, nothing in flight
StartsAs(s) ==
    /\ images = s.images
    /\ boxes = s.boxes
    /\ currentImageId = s.currentImageId
    /\ currentImageModified = s.currentImageModified
    /\ savedBoxesState = s.savedBoxesState
    /\ nextBoxId = s.nextBoxId
    /\ nextImageId = s.nextImageId
    /\ listeners = s.listeners
    /\ classes = s.classes
    /\ delivered = <<>>
    /\ hist = NoHist
    /\ coco = COCO_initEmpty
    /\ firstLoad = <<>>
    /\ loads = 0
    /\ saves = 0
    /\ yolo = YOLO_constructor
    /\ ndjson = NDJSON_constructor
    /\ result = NoResult
    /\ inFlight = <<>>

\* the store with the listeners registered and nothing in it: as the
\* NotatoApp constructor has it before initialize(), and as clear() leaves it
\* when a folder is about to be opened
Init ==
    /\ StartsAs(NewStore)
    /\ disk = <<>>
    /\ folder = EmptyFolder

\* handleOpenFolder adds one image per file, without id
addImage ==
    /\ nextImageId \in ImageIds
    /\ Commit(AddImage(Store))
    /\ Edited(FALSE)
    /\ UNCHANGED appVars

BoxData(id, c, g, img) ==
    [id |-> id, classId |-> c, x |-> g.x, y |-> g.y, width |-> g.width,
     height |-> g.height, imageId |-> img]

addBoxOf(id, c, g, img) ==
    /\ id = NoId => nextBoxId <= MaxBoxId
    /\ \/ AddBoxId(Store, BoxData(id, c, g, img)) \in DOMAIN boxes
       \/ Cardinality(DOMAIN boxes) < MaxBoxes
    /\ Commit(AddBox(Store, BoxData(id, c, g, img)))
    /\ Edited(img = currentImageId)
    /\ UNCHANGED appVars

\* finishDrawing and the loaders give addBox the id of an image of the store
addBox ==
    \E id \in SuppliedBoxIds, c \in ClassIds, g \in Geometries,
       img \in DOMAIN images :
        addBoxOf(id, c, g, img)

updateBoxOf(boxId, u) ==
    /\ Commit(UpdateBox(Store, boxId, u))
    /\ Edited(boxId \in DOMAIN boxes => boxes[boxId].imageId = currentImageId)
    /\ UNCHANGED appVars

updateBox ==
    \E boxId \in DOMAIN boxes \cup {NoId}, u \in Updates : updateBoxOf(boxId, u)

deleteBoxOf(boxId) ==
    /\ Commit(DeleteBox(Store, boxId))
    /\ Edited(boxId \in DOMAIN boxes => boxes[boxId].imageId = currentImageId)
    /\ UNCHANGED appVars

deleteBox ==
    \E boxId \in DOMAIN boxes \cup {NoId} : deleteBoxOf(boxId)

\* loadImage(imageId): the image is looked up first, then made current
setCurrentImageOf(img) ==
    LET s == SetCurrentImage(Store, img)
        base == BoxValues(GetBoxesForImage(s, img))
    IN  /\ s.nextBoxId <= MaxBoxId + 1
        /\ Cardinality(DOMAIN s.boxes) <= MaxBoxes
        /\ Commit(s)
        /\ hist' = [first |-> base, base |-> base, cleared |-> FALSE,
                    own |-> TRUE,
                    left |-> IF currentImageId = NullId \/ ~hist.own
                             THEN "none"
                             ELSE IF ~currentImageModified THEN "clean"
                             ELSE IF ~hist.cleared THEN "rolledBack"
                             ELSE IF hist.base # hist.first
                             THEN "rolledBackToSaved"
                             ELSE "none"]
        /\ UNCHANGED appVars

setCurrentImage ==
    \E img \in DOMAIN images : setCurrentImageOf(img)

clearImageModified ==
    LET s == ClearImageModified(Store)
    IN  /\ Commit(s)
        /\ hist' = IF currentImageId = NullId THEN NoHist
                    ELSE LET base == BoxValues(GetBoxesForImage(s, currentImageId))
                         IN  [first |-> IF hist.own THEN hist.first ELSE base,
                              base |-> base, cleared |-> TRUE, own |-> TRUE,
                              left |-> "none"]
        /\ UNCHANGED appVars

clear ==
    /\ Commit(Clear(Store))
    /\ hist' = NoHist
    /\ UNCHANGED appVars

Next ==
    \/ addImage
    \/ addBox
    \/ updateBox
    \/ deleteBox
    \/ setCurrentImage
    \/ clearImageModified
    \/ clear

vars == <<images, boxes, currentImageId, currentImageModified,
          savedBoxesState, nextBoxId, nextImageId, listeners, delivered,
          classes, hist, coco, disk, firstLoad, loads, saves, folder, yolo,
          ndjson, result, inFlight>>

Spec == Init /\ [][Next]_vars

-----------------------------------------------------------------------------
(* The store driven through its methods by any caller: addBox may also be   *)
(* given an image id that names no image of the store                       *)

addBoxUnknownImage ==
    \E id \in SuppliedBoxIds, c \in ClassIds, g \in Geometries,
       img \in {UnknownImage, NullId} :
        addBoxOf(id, c, g, img)

NextAPI == Next \/ addBoxUnknownImage

SpecAPI == Init /\ [][NextAPI]_vars

-----------------------------------------------------------------------------
(* The COCO handler alone: its methods as actions *)

parse ==
    \E doc \in Documents :
        /\ coco' = COCO_parse(coco, doc)
        /\ UNCHANGED <<storeVars, disk, firstLoad, loads, saves, codecVars>>

setBoxesForImageOf(fileName, bs) ==
    LET h == COCO_setBoxesForImage(coco, fileName, bs)
    IN  /\ h.nextAnnotationId <= MaxAnnotationId
        /\ coco' = h
        /\ UNCHANGED <<storeVars, disk, firstLoad, loads, saves, codecVars>>

setBoxesForImage ==
    \E f \in 1..Len(Files), bs \in SeqsUpTo(InputBoxes, MaxInputBoxes) :
        setBoxesForImageOf(Files[f], bs)

initEmpty ==
    /\ coco' = COCO_initEmpty
    /\ UNCHANGED <<storeVars, disk, firstLoad, loads, saves, codecVars>>

NextCOCO == parse \/ setBoxesForImage \/ initEmpty

SpecCOCO == Init /\ [][NextCOCO]_vars

-----------------------------------------------------------------------------
(* The application run: a folder with or without annotations.json is        *)
(* opened, saved, and opened again after a reload of the page                *)

\* new NotatoApp(): the constructor ends with initialize()
NotatoApp == SetClasses(NewStore, <<"object">>)

\* the name under which loadCOCOAnnotations() finds a document among the
\* files, '' when it finds none
COCOFileFound(files) ==
    IF "annotations.json" \in DOMAIN files THEN "annotations.json"
    ELSE IF "instances_default.json" \in DOMAIN files
    THEN "instances_default.json"
    ELSE ""

\* the folder holds no COCO document, or one under one of the two names;
\* disk is what loadCOCOAnnotations() reads
InitRoundTrip ==
    /\ StartsAs(NotatoApp)
    /\ \/ folder = EmptyFolder /\ disk = <<>>
       \/ \E doc \in Documents,
             name \in {"annotations.json", "instances_default.json"} :
             /\ folder = [EmptyFolder EXCEPT !.coco = [n \in {name} |-> doc]]
             /\ disk = <<doc>>

handleOpenFolder ==
    LET opened == HandleOpenFolder(Store, coco, disk)
    IN  /\ DOMAIN images = {}
        /\ loads < MaxLoads
        /\ Commit(opened.store)
        /\ coco' = opened.handler
        /\ firstLoad' = IF loads = 0 THEN LoadedValues(opened.store)
                         ELSE firstLoad
        /\ loads' = loads + 1
        /\ hist' = NoHist
        /\ result' = [op |-> "load", thrown |-> FALSE, boxes |-> EmptyMap,
                      classes |-> <<>>, file |-> COCOFileFound(folder.coco)]
        /\ UNCHANGED <<disk, saves, folder, yolo, ndjson, inFlight>>

handleSave ==
    LET saved == HandleSave(Store, coco)
    IN  /\ currentImageId # NullId
        /\ saves < MaxSaves
        /\ Commit(saved.store)
        /\ coco' = saved.handler
        /\ disk' = saved.files
        /\ folder' = [folder EXCEPT !.coco =
                         MapSet(@, "annotations.json", saved.files[1])]
        /\ saves' = saves + 1
        /\ hist' = NoHist
        /\ UNCHANGED <<firstLoad, loads, yolo, ndjson, result, inFlight>>

\* the page is loaded anew: a new NotatoApp over the same folder
reloadPage ==
    /\ DOMAIN images # {}
    /\ Commit(NotatoApp)
    /\ coco' = COCO_initEmpty
    /\ hist' = NoHist
    /\ UNCHANGED <<disk, firstLoad, loads, saves, codecVars>>

NextRoundTrip == handleOpenFolder \/ handleSave \/ reloadPage

SpecRoundTrip == InitRoundTrip /\ [][NextRoundTrip]_vars

-----------------------------------------------------------------------------
(* The NDJSON handler over a folder: load and save as the application      *)
(* calls them, with reads and writes that may fail                          *)

\* a line JSON.parse rejects
BadLine == [type |-> "unparsable"]

\* the box [classId, 0.5, 0.5, 0.3, 0.4] of an image record
NDJSONBox(classId) == <<classId, 500000, 500000, 300000, 400000>>

ImageRecord(fileName, classIds) ==
    [type |-> "image", file |-> fileName, width |-> ImageWidth,
     height |-> ImageHeight,
     annotations |-> [boxes |-> [i \in 1..Len(classIds) |->
                                    NDJSONBox(classIds[i])]]]

\* the first lines of an annotation file: no dataset record, a line that is
\* not JSON, a dataset record without class names, with an empty class map,
\* with two classes, with one class and then a line that is not JSON, with
\* a class map that starts at 1
DatasetLines ==
    {<<>>, <<BadLine>>, <<[type |-> "dataset", task |-> "detect"]>>,
     <<DatasetRecord(EmptyMap)>>,
     <<DatasetRecord(NDJSON_arrayToClassNames(<<"person", "car">>))>>,
     <<DatasetRecord(NDJSON_arrayToClassNames(<<"person">>)), BadLine>>,
     <<DatasetRecord([k \in {1} |-> "car"])>>}

\* an image record with fields of another tool: a url, a split tag and a
\* field this application knows nothing of
ForeignImageRecord(fileName, classIds) ==
    [type |-> "image", file |-> fileName, width |-> ImageWidth,
     height |-> ImageHeight,
     annotations |-> [boxes |-> [i \in 1..Len(classIds) |->
                                    NDJSONBox(classIds[i])]],
     url |-> "https://example.com/" \o fileName, split |-> "train",
     meta |-> "reviewed"]

\* its image records
ImageLines ==
    {<<>>,
     <<ImageRecord("a.jpg", <<0>>)>>,
     <<ForeignImageRecord("a.jpg", <<0>>)>>,
     <<ImageRecord("b.jpg", <<1>>), ImageRecord("a.jpg", <<0, 1>>)>>}

NDJSONContents ==
    {ds \o ims : ds \in DatasetLines, ims \in ImageLines} \ {<<>>}

\* the folders an NDJSON load may meet: no annotation file, or one
NDJSONFolders ==
    {EmptyFolder}
        \cup {[EmptyFolder EXCEPT !.ndjson = [n \in {name} |-> content]] :
                 name \in {"dataset.ndjson", "annotations.json"},
                 content \in NDJSONContents}

\* the boxes and classes the application hands to save: the boxes of the
\* store for the image, in thousandths of a pixel
CodecBox(classId) ==
    [classId |-> classId, x |-> 350000, y |-> 240000, width |-> 300000,
     height |-> 320000]

CodecBoxLists == {<<>>, <<CodecBox(0)>>, <<CodecBox(1), CodecBox(0)>>}

ClassLists == {<<"object">>, <<"person", "car">>}

InitNDJSON ==
    /\ StartsAs(NewStore)
    /\ disk = <<>>
    /\ folder \in NDJSONFolders

ndjsonLoadOf(unreadable) ==
    LET loaded == NDJSON_load(ndjson, folder.ndjson, FolderImages, unreadable)
    IN  /\ ndjson' = loaded.handler
        /\ result' = [op |-> "load", thrown |-> FALSE,
                      boxes |-> loaded.boxes, classes |-> loaded.classes]
        /\ UNCHANGED <<storeVars, coco, disk, firstLoad, loads, saves,
                       folder, yolo, inFlight>>

ndjsonLoad == \E unreadable \in SUBSET DOMAIN folder.ndjson :
                 ndjsonLoadOf(unreadable)

\* save(...): writeTextFile either writes the content or throws
ndjsonSaveOf(image, bs, cls, writeFails) ==
    LET saved == NDJSON_save(ndjson, image, bs, cls)
    IN  /\ saves < MaxSaves
        /\ saves' = saves + 1
        /\ ndjson' = saved.handler
        /\ folder' = IF writeFails THEN folder
                     ELSE [folder EXCEPT !.ndjson =
                             MapSet(@, ndjson.annotationFile, saved.content)]
        /\ result' = [op |-> "save", thrown |-> writeFails,
                      boxes |-> EmptyMap, classes |-> <<>>]
        /\ UNCHANGED <<storeVars, coco, disk, firstLoad, loads, yolo,
                       inFlight>>

ndjsonSave ==
    \E image \in Range(FolderImages), bs \in CodecBoxLists,
       cls \in ClassLists, writeFails \in BOOLEAN :
        ndjsonSaveOf(image, bs, cls, writeFails)

NextNDJSON == ndjsonLoad \/ ndjsonSave

SpecNDJSON == InitNDJSON /\ [][NextNDJSON]_vars

-----------------------------------------------------------------------------
(* The YOLO handler over a folder: parse, load and save as the application  *)
(* calls them                                                               *)

\* the lines of a label file: '0 0.5 0.5 0.3 0.4' and the same box with
\* class 1, the test's 'invalid line' and '0 0.2 0.2 0.1', a blank line, a
\* line of five words, and a line whose third field is not a number
LabelLine(classId) ==
    <<IntField(classId), DecField(500000), DecField(500000), DecField(300000),
      DecField(400000)>>

LabelLines ==
    {LabelLine(0), LabelLine(1),
     <<WordField, WordField>>,
     <<IntField(0), DecField(200000), DecField(200000), DecField(100000)>>,
     <<>>,
     <<WordField, WordField, WordField, WordField, WordField>>,
     <<IntField(0), DecField(500000), WordField, DecField(300000),
       DecField(400000)>>}

LabelContents == SeqsUpTo(LabelLines, MaxLines)

\* the folders a YOLO load may meet: classes.txt absent or with one or two
\* names, at the root or under labels/; a label file for a.jpg or none
YOLOFolders ==
    {[EmptyFolder EXCEPT !.classes = cf, !.labels = lf] :
        cf \in {EmptyMap}
                \cup {[n \in {path} |-> names] :
                        path \in {"classes.txt", "labels/classes.txt"},
                        names \in {<<"person">>, <<"person", "car">>}},
        lf \in {EmptyMap}
                \cup {[n \in {"a.txt"} |-> content] :
                        content \in LabelContents \ {<<>>}}}

InitYOLO ==
    /\ StartsAs(NewStore)
    /\ disk = <<>>
    /\ folder \in YOLOFolders

\* handler.parse(content, imageWidth, imageHeight)
yoloParseOf(content) ==
    /\ result' = [op |-> "parse", thrown |-> FALSE,
                  boxes |-> [id \in {1} |->
                               YOLO_parse(yolo, content, ImageWidth,
                                          ImageHeight)],
                  classes |-> yolo.classes]
    /\ UNCHANGED <<storeVars, coco, disk, firstLoad, loads, saves, folder,
                   yolo, ndjson, inFlight>>

yoloParse == \E path \in DOMAIN folder.labels : yoloParseOf(folder.labels[path])

yoloLoadOf(unreadable) ==
    LET loaded == YOLO_load(yolo, folder, FolderImages, unreadable)
    IN  /\ yolo' = loaded.handler
        /\ result' = [op |-> "load", thrown |-> FALSE,
                      boxes |-> loaded.boxes, classes |-> loaded.classes]
        /\ UNCHANGED <<storeVars, coco, disk, firstLoad, loads, saves,
                       folder, ndjson, inFlight>>

yoloLoad ==
    \E unreadable \in SUBSET (DOMAIN folder.classes \cup DOMAIN folder.labels) :
        yoloLoadOf(unreadable)

yoloSaveOf(image, bs, cls, failing) ==
    LET saved == YOLO_save(yolo, folder, image, bs, cls, failing)
    IN  /\ saves < MaxSaves
        /\ saves' = saves + 1
        /\ yolo' = saved.handler
        /\ folder' = saved.files
        /\ result' = [op |-> "save", thrown |-> saved.thrown,
                      boxes |-> EmptyMap, classes |-> <<>>]
        /\ UNCHANGED <<storeVars, coco, disk, firstLoad, loads, ndjson,
                       inFlight>>

yoloSave ==
    \E image \in Range(FolderImages), bs \in CodecBoxLists,
       cls \in ClassLists, failing \in SUBSET {"label", "classes"} :
        yoloSaveOf(image, bs, cls, failing)

NextYOLO == yoloParse \/ yoloLoad \/ yoloSave

SpecYOLO == InitYOLO /\ [][NextYOLO]_vars

-----------------------------------------------------------------------------
(* The coordinate transform: pixelsToNormalized and normalizedToPixels, the *)
(* same code in YOLOHandler and NDJSONHandler, applied as save and load     *)
(* apply them.  Pixel values are thousandths of a pixel and normalized      *)
(* values millionths; the inputs are chosen so that every quotient is exact *)
(* at that resolution.                                                      *)

\* the sizes of the tests' images, in pixels
ImageSizes == {<<640, 480>>, <<1000, 800>>}

\* boxes a save may be handed: inside the image, partly or wholly outside
\* it, of no width, wider than the image; and the boxes parse() gives for a
\* line of five fields, the malformed ones included
PixelBox(x, y, width, height) ==
    [classId |-> 0, x |-> x, y |-> y, width |-> width, height |-> height]

DrawnBoxes ==
    {PixelBox(x, y, width, height) :
        x \in {0 - 50000, 0, 100000, 350000, 600000},
        width \in {0, 60000, 300000, 1000000},
        y \in {0 - 48000, 0, 120000, 432000},
        height \in {0, 96000, 960000}}

ParsedBoxes ==
    {LET box == YOLO_parseLine(YOLO_constructor, line, ImageWidth,
                               ImageHeight)
     IN  [classId |-> box.classId, x |-> box.x, y |-> box.y,
          width |-> box.width, height |-> box.height] :
        line \in {l \in LabelLines : Len(l) >= 5}}

\* boxes inside the image whose quotients are not exact: the test's box and
\* boxes at thirds and sevenths of a pixel grid
UnevenBoxes ==
    {PixelBox(400000, 280000, 200000, 240000),
     PixelBox(33000, 100000, 77000, 100000),
     PixelBox(1000, 7000, 333000, 111000),
     PixelBox(123000, 77000, 517000, 403000)}

TransformBoxes == DrawnBoxes \cup UnevenBoxes \cup ParsedBoxes

\* normalized boxes a load may be handed: those of the tests
NormalizedBoxes ==
    {[centerX |-> 500000, centerY |-> 500000, width |-> 300000,
      height |-> 400000],
     [centerX |-> 250000, centerY |-> 250000, width |-> 150000,
      height |-> 200000],
     [centerX |-> 750000, centerY |-> 250000, width |-> 150000,
      height |-> 400000],
     [centerX |-> 100000, centerY |-> 100000, width |-> 200000,
      height |-> 200000]}

InitTransform ==
    /\ StartsAs(NewStore)
    /\ disk = <<>>
    /\ folder = EmptyFolder

\* stringify() hands a box of the store to pixelsToNormalized
pixelsToNormalizedOf(box, size) ==
    /\ result' = [op |-> "pixelsToNormalized", thrown |-> FALSE,
                  boxes |-> <<box>>, classes |-> <<>>, size |-> size,
                  normalized |-> PixelsToNormalized(box, size[1], size[2], 1)]
    /\ UNCHANGED <<storeVars, coco, disk, firstLoad, loads, saves, folder,
                   yolo, ndjson, inFlight>>

pixelsToNormalized ==
    \E box \in TransformBoxes, size \in ImageSizes :
        pixelsToNormalizedOf(box, size)

\* parse() hands what was written back to normalizedToPixels: boxes holds
\* the original box and the reloaded one
reloadNormalized ==
    /\ result.op = "pixelsToNormalized"
    /\ result' = [result EXCEPT
                    !.op = "reloaded",
                    !.boxes = Append(@, NormalizedToPixels(result.normalized,
                                                           result.size[1],
                                                           result.size[2]))]
    /\ UNCHANGED <<storeVars, coco, disk, firstLoad, loads, saves, folder,
                   yolo, ndjson, inFlight>>

\* parseBoxes() and parse() hand the numbers of a file to normalizedToPixels
normalizedToPixelsOf(normalized, size) ==
    /\ result' = [op |-> "normalizedToPixels", thrown |-> FALSE,
                  boxes |-> <<NormalizedToPixels(normalized, size[1],
                                                 size[2])>>,
                  classes |-> <<>>, size |-> size, normalized |-> normalized]
    /\ UNCHANGED <<storeVars, coco, disk, firstLoad, loads, saves, folder,
                   yolo, ndjson, inFlight>>

normalizedToPixels ==
    \E normalized \in NormalizedBoxes, size \in ImageSizes :
        normalizedToPixelsOf(normalized, size)

\* load() hands the boxes of an image record to parseBoxes
parseBoxesOf(ndjsonBoxes, size) ==
    /\ result' = [op |-> "parseBoxes", thrown |-> FALSE,
                  boxes |-> NDJSON_parseBoxes(ndjsonBoxes, size[1], size[2]),
                  classes |-> <<>>, size |-> size, input |-> ndjsonBoxes]
    /\ UNCHANGED <<storeVars, coco, disk, firstLoad, loads, saves, folder,
                   yolo, ndjson, inFlight>>

\* the boxes of the image records of the tests
NDJSONBoxLists ==
    {<<NDJSONBox(0)>>,
     <<NDJSONBox(0), <<1, 250000, 250000, 150000, 200000>>>>,
     <<<<0, 500000, 500000>>, NDJSONBox(1)>>}

parseBoxes ==
    \E ndjsonBoxes \in NDJSONBoxLists, size \in ImageSizes :
        parseBoxesOf(ndjsonBoxes, size)

\* class names as handleAddClass and parseClasses let them in: not empty
ClassNames == {"person", "dog"}

\* class maps of a dataset record, with and without gaps
ClassMaps ==
    UNION {[indices -> ClassNames] : indices \in SUBSET (0..(MaxClasses - 1))}

\* load() hands the class map of the dataset record to classNamesToArray
classNamesToArrayOf(classNames) ==
    /\ result' = [op |-> "classNamesToArray", thrown |-> FALSE,
                  boxes |-> <<>>, input |-> classNames,
                  classes |-> NDJSON_classNamesToArray(classNames)]
    /\ UNCHANGED <<storeVars, coco, disk, firstLoad, loads, saves, folder,
                   yolo, ndjson, inFlight>>

classNamesToArray ==
    \E classNames \in ClassMaps : classNamesToArrayOf(classNames)

\* save() hands the class list to arrayToClassNames, and the next load hands
\* the map it wrote to classNamesToArray
arrayToClassNamesOf(cls) ==
    /\ result' = [op |-> "arrayToClassNames", thrown |-> FALSE,
                  boxes |-> <<>>, input |-> cls,
                  classNames |-> NDJSON_arrayToClassNames(cls),
                  classes |-> NDJSON_classNamesToArray(
                                 NDJSON_arrayToClassNames(cls))]
    /\ UNCHANGED <<storeVars, coco, disk, firstLoad, loads, saves, folder,
                   yolo, ndjson, inFlight>>

arrayToClassNames ==
    \E cls \in SeqsUpTo(ClassNames, MaxClasses) : arrayToClassNamesOf(cls)

NextTransform ==
    \/ pixelsToNormalized
    \/ reloadNormalized
    \/ normalizedToPixels
    \/ parseBoxes
    \/ classNamesToArray
    \/ arrayToClassNames

SpecTransform == InitTransform /\ [][NextTransform]_vars

-----------------------------------------------------------------------------
(* The application with the format handlers (main.js, NotatoApp): the       *)
(* store is filled and edited through its methods, a save is requested and  *)
(* its writes settle later, one await at a time.  The handler in use is the *)
(* default one, the YOLO handler.                                           *)

\* the boxes of the store as the codecs see them, in thousandths of a pixel
CodecBoxes(bs) ==
    [i \in 1..Len(bs) |->
        [classId |-> bs[i].classId, x |-> bs[i].x * 1000,
         y |-> bs[i].y * 1000, width |-> bs[i].width * 1000,
         height |-> bs[i].height * 1000]]

\* handleSave() up to its first await: the save in flight, awaiting the
\* write of the label file
SaveInFlight(s) ==
    LET image == Image(s.currentImageId)
    IN  [image |-> image.id,
         labelPath |-> YOLO_getLabelPath(image.fileName),
         content |-> YOLO_stringify(
                        CodecBoxes(GetBoxesForImage(s, image.id)),
                        image.width, image.height),
         classes |-> s.classes,
         awaiting |-> "label"]

\* handleSave() after `await this.currentHandler.save(...)`: the store when
\* the save threw, and when it did not
SettleSaveAlwaysClears(s, threw) == ClearImageModified(s)

SettleSave(s, threw) == IF threw THEN s ELSE ClearImageModified(s)

\* the observation after clearImageModified() on the store s
ClearedHist(s) ==
    IF currentImageId = NullId THEN NoHist
    ELSE LET base == BoxValues(GetBoxesForImage(s, currentImageId))
         IN  [first |-> IF hist.own THEN hist.first ELSE base,
              base |-> base, cleared |-> TRUE, own |-> TRUE, left |-> "none"]

\* inFlight without its i-th entry
Without(seq, i) == SubSeq(seq, 1, i - 1) \o SubSeq(seq, i + 1, Len(seq))

InitApp ==
    /\ StartsAs(NotatoApp)
    /\ disk = <<>>
    /\ folder = EmptyFolder

\* the save button, Ctrl+S: handleSave() runs up to its first await
saveRequested ==
    /\ saves < MaxSaveRequests
    /\ currentImageId # NullId
    /\ currentImageModified
    /\ inFlight' = Append(inFlight, SaveInFlight(Store))
    /\ saves' = saves + 1
    /\ UNCHANGED <<storeVars, coco, disk, firstLoad, loads, folder, yolo,
                   ndjson, result>>

\* the write of the label file settles: it threw, and handleSave reports
\* the failure, or it did not, and save() goes on to classes.txt
labelWriteSettlesOf(i, threw) ==
    LET save == inFlight[i]
        classesExist == FileExists(folder.classes, "classes.txt")
        done == threw \/ classesExist
        s == SettleSave(Store, threw)
    IN  /\ save.awaiting = "label"
        /\ folder' = IF threw THEN folder
                     ELSE [folder EXCEPT !.labels =
                             MapSet(@, save.labelPath, save.content)]
        /\ yolo' = IF done THEN yolo
                   ELSE [yolo EXCEPT !.classes = save.classes]
        /\ inFlight' = IF done THEN Without(inFlight, i)
                       ELSE [inFlight EXCEPT ![i].awaiting = "classes"]
        /\ result' = IF done
                      THEN [op |-> "save", thrown |-> threw,
                            boxes |-> EmptyMap, classes |-> <<>>]
                      ELSE result
        /\ IF done
           THEN Commit(s) /\ hist' = (IF threw THEN hist ELSE ClearedHist(s))
           ELSE UNCHANGED storeVars
        /\ UNCHANGED <<coco, disk, firstLoad, loads, saves, ndjson>>

\* the write of classes.txt settles
classesWriteSettlesOf(i, threw) ==
    LET save == inFlight[i]
        s == SettleSave(Store, threw)
    IN  /\ save.awaiting = "classes"
        /\ folder' = IF threw THEN folder
                     ELSE [folder EXCEPT !.classes =
                             MapSet(@, "classes.txt",
                                    YOLO_stringifyClasses(save.classes))]
        /\ inFlight' = Without(inFlight, i)
        /\ result' = [op |-> "save", thrown |-> threw, boxes |-> EmptyMap,
                      classes |-> <<>>]
        /\ Commit(s)
        /\ hist' = (IF threw THEN hist ELSE ClearedHist(s))
        /\ UNCHANGED <<coco, disk, firstLoad, loads, saves, yolo, ndjson>>

\* a load button: handleOpenFolder() clears the store, the image cache and
\* the canvas and then calls this.cocoHandler.initEmpty(); the constructor
\* sets formatHandlers and currentHandler but no cocoHandler, so the call
\* throws a TypeError before the first await and the catch reports it
openFolderRequested ==
    /\ DOMAIN images # {}
    /\ Commit(Clear(Store))
    /\ hist' = NoHist
    /\ result' = [op |-> "openFolder", thrown |-> TRUE, boxes |-> EmptyMap,
                  classes |-> <<>>]
    /\ UNCHANGED <<coco, disk, firstLoad, loads, saves, folder, yolo, ndjson,
                   inFlight>>

labelWriteSettles ==
    \E i \in 1..Len(inFlight), threw \in BOOLEAN : labelWriteSettlesOf(i, threw)

classesWriteSettles ==
    \E i \in 1..Len(inFlight), threw \in BOOLEAN :
        classesWriteSettlesOf(i, threw)

\* finishDrawing(): the box the user drew goes to the current image, with no
\* id of its own
finishDrawing ==
    /\ currentImageId # NullId
    /\ \E c \in ClassIds, g \in Geometries :
          addBoxOf(NoId, c, g, currentImageId)

\* the folder the application works on holds one image file
addFolderImage ==
    /\ DOMAIN images = {}
    /\ addImage

NextApp ==
    \/ addFolderImage
    \/ finishDrawing
    \/ setCurrentImage
    \/ saveRequested
    \/ openFolderRequested
    \/ labelWriteSettles
    \/ classesWriteSettles

SpecApp == InitApp /\ [][NextApp]_vars

-----------------------------------------------------------------------------
(* Properties of the store *)

\* the values of the boxes getBoxesForImage(img) returns
ImageBoxValues(img) == BoxValues(GetBoxesForImage(Store, img))

\* the last operation marked the current image and told every listener of
\* 'modified' so
MarkedAndNotified ==
    /\ currentImageModified
    /\ \A i \in 1..Len(listeners["modified"]) :
         \E j \in 1..Len(delivered) :
            delivered[j] = [cb |-> listeners["modified"][i],
                            event |-> "modified", modified |-> TRUE]

C2_RollbackRestoresSavedBoxes ==
    [][\A img \in DOMAIN images, a \in DOMAIN images :
          (/\ a = currentImageId
           /\ hist.own /\ hist.cleared
           /\ setCurrentImageOf(img))
          => ImageBoxValues(a)' = hist.base]_vars

\* an image saved with edits and edited again has just been rolled back to
\* the saved values, which are not those it had when it was made current
C2_Witness == hist.left = "rolledBackToSaved"

\* C5: an add, update or delete of a box whose imageId is the current image
\* sets the dirty flag and delivers 'modified' to the registered listeners.
C5_OwnEditMarksAndNotifies ==
    [][/\ \A id \in SuppliedBoxIds, c \in ClassIds, g \in Geometries :
             currentImageId # NullId /\ addBoxOf(id, c, g, currentImageId)
             => MarkedAndNotified'
       /\ \A boxId \in DOMAIN boxes :
             boxes[boxId].imageId = currentImageId
             => /\ (\E u \in Updates : updateBoxOf(boxId, u))
                   => MarkedAndNotified'
                /\ deleteBoxOf(boxId) => MarkedAndNotified']_vars

\* a box of the current image has just been added, updated or deleted
C5_Witness ==
    /\ currentImageId # NullId
    /\ currentImageModified
    /\ delivered = <<[cb |-> "updateSaveButton", event |-> "modified",
                      modified |-> TRUE],
                     [cb |-> "updateAnnotationCount", event |-> "boxes",
                      modified |-> TRUE]>>

\* C6: an add, update or delete of a box that does not belong to the current
\* image leaves the dirty flag as it was.
C6_ForeignEditKeepsDirtyFlag ==
    [][/\ \A id \in SuppliedBoxIds, c \in ClassIds, g \in Geometries,
            img \in DOMAIN images :
             img # currentImageId /\ addBoxOf(id, c, g, img)
             => currentImageModified' = currentImageModified
       /\ \A boxId \in DOMAIN boxes :
             boxes[boxId].imageId # currentImageId
             => /\ (\E u \in Updates : updateBoxOf(boxId, u))
                   => currentImageModified' = currentImageModified
                /\ deleteBoxOf(boxId)
                   => currentImageModified' = currentImageModified]_vars

\* while an image is current and clean, a box of another image has just been
\* added or updated: only 'boxes' was delivered
C6_Witness ==
    /\ currentImageId # NullId
    /\ ~currentImageModified
    /\ delivered = <<[cb |-> "updateAnnotationCount", event |-> "boxes",
                      modified |-> FALSE]>>
    /\ \E b \in DOMAIN boxes :
          boxes[b].imageId \in DOMAIN images \ {currentImageId}

\* C8: after any sequence of store operations, every box of the store has an
\* imageId that names an image of the store.
C8_BoxImageExists ==
    \A b \in DOMAIN boxes : boxes[b].imageId \in DOMAIN images

\* C7: the ids a rollback gives the restored boxes differ from the id of
\* every box in the store at that moment (the boxes of the other images).
C7_RestoredIdsAreFresh ==
    [][\A img \in DOMAIN images, a \in DOMAIN images :
          (/\ a = currentImageId
           /\ currentImageModified
           /\ setCurrentImageOf(img))
          => Range(images'[a]) \cap (DOMAIN boxes \ Range(images[a])) = {}]_vars

\* C9: each image's box-id list holds exactly the ids of the stored boxes
\* whose imageId is that image, each once.
C9_ImageListsMatchBoxes ==
    \A img \in DOMAIN images :
        /\ \A i, j \in 1..Len(images[img]) :
              images[img][i] = images[img][j] => i = j
        /\ Range(images[img]) = {b \in DOMAIN boxes : boxes[b].imageId = img}

-----------------------------------------------------------------------------
(* Properties of the COCO handler and of the application run *)

\* the entries of the images array that carry a file name
ImageEntries(h, fileName) ==
    {i \in 1..Len(h.data.images) : h.data.images[i].file_name = fileName}

\* the annotations one setBoxesForImage call pushed for n boxes
Pushed(h, n) ==
    SubSeq(h.data.annotations, Len(h.data.annotations) - n + 1,
           Len(h.data.annotations))

\* C3: when the document holds one image entry for a file name and its id is
\* 0, setBoxesForImage with that file name leaves exactly one entry for it in
\* the images array, and the annotations it writes carry image_id 0.
C3_ImageIdZeroNotDuplicated ==
    [][\A f \in Range(Files), bs \in SeqsUpTo(InputBoxes, MaxInputBoxes) :
          (/\ f \in DOMAIN coco.imageIdMap
           /\ coco.imageIdMap[f] = 0
           /\ Cardinality(ImageEntries(coco, f)) = 1
           /\ setBoxesForImageOf(f, bs))
          => /\ Cardinality(ImageEntries(coco', f)) = 1
             /\ \A i \in 1..Len(bs) : Pushed(coco', Len(bs))[i].image_id = 0]_vars

\* C10: setBoxesForImage writes each annotation with the id its box carries,
\* whatever the value (0 too), and gives the boxes without id, in order, the
\* next values of the annotation counter.
C10_SuppliedIdsPreserved ==
    [][\A f \in Range(Files), bs \in SeqsUpTo(InputBoxes, MaxInputBoxes) :
          setBoxesForImageOf(f, bs)
          => \A i \in 1..Len(bs) :
                Pushed(coco', Len(bs))[i].id =
                    IF "id" \in DOMAIN bs[i] THEN bs[i].id
                    ELSE coco.nextAnnotationId
                         + Cardinality({j \in 1..(i - 1) :
                                          "id" \notin DOMAIN bs[j]})]_vars

\* the annotations of the document that belong to other images than the one
\* the handler knows the file by
AnnotationsOfOthers(h, fileName) ==
    IF fileName \in DOMAIN h.imageIdMap
    THEN SelectSeq(h.data.annotations,
                   LAMBDA ann : ann.image_id # h.imageIdMap[fileName])
    ELSE h.data.annotations

\* C11: setBoxesForImage for a file removes every annotation the document
\* had for that file's image and appends one annotation per input box, with
\* bbox = [x, y, width, height], area = width * height and iscrowd = 0; the
\* annotations of the other images stay as they were, in their order.
C11_ReplacesAnnotationsOfImage ==
    [][\A f \in Range(Files), bs \in SeqsUpTo(InputBoxes, MaxInputBoxes) :
          setBoxesForImageOf(f, bs)
          => LET others == AnnotationsOfOthers(coco, f)
                 after == coco'.data.annotations
             IN  /\ Len(after) = Len(others) + Len(bs)
                 /\ SubSeq(after, 1, Len(others)) = others
                 /\ \A i \in 1..Len(bs) :
                       LET ann == after[Len(others) + i]
                       IN  /\ ann.bbox = <<bs[i].x, bs[i].y, bs[i].width,
                                           bs[i].height>>
                           /\ ann.area = bs[i].width * bs[i].height
                           /\ ann.iscrowd = 0]_vars

\* C4: once the folder has been loaded, saved with its boxes as loaded, and
\* loaded again, every image has the set of {classId, x, y, width, height}
\* the first load gave it.
C4_RoundTripKeepsBoxValues ==
    (loads >= 2 /\ DOMAIN images # {}) => LoadedValues(Store) = firstLoad

\* the annotations a document holds for a file, in document order
AnnotationsOfFile(doc, fileName) ==
    SelectSeq(doc.annotations,
              LAMBDA ann : \E i \in 1..Len(doc.images) :
                              /\ doc.images[i].file_name = fileName
                              /\ doc.images[i].id = ann.image_id)

\* the names of the categories of a document that carry an id
CategoryNames(doc, categoryId) ==
    {doc.categories[i].name :
        i \in {j \in 1..Len(doc.categories) :
                    doc.categories[j].id = categoryId}}

\* the folder's document has been loaded into the store and not saved since
LoadedFromDisk == loads = 1 /\ saves = 0 /\ DOMAIN images # {} /\ disk # <<>>

\* C12: after a COCO load every box has a classId that indexes the loaded
\* class list (0 <= classId < number of classes), and the class at that index
\* is the name of the category whose id is the annotation's category_id.
C12_LoadedClassIdIndexesClasses ==
    LoadedFromDisk =>
        \A img \in DOMAIN images :
            LET bs == GetBoxesForImage(Store, img)
                anns == AnnotationsOfFile(disk[1], FileNameOf(img))
            IN  /\ Len(bs) = Len(anns)
                /\ \A k \in 1..Len(bs) :
                      /\ 0 <= bs[k].classId
                      /\ bs[k].classId < Len(classes)
                      /\ classes[bs[k].classId + 1]
                            \in CategoryNames(disk[1], anns[k].category_id)

\* C13: when the write of a codec save fails, the error reaches the caller
\* and the handler's in-memory state (for NDJSON the dataset record and the
\* image records) is what it was before the save call.
C13_FailedWriteLeavesHandler ==
    [][\A image \in Range(FolderImages), bs \in CodecBoxLists,
         cls \in ClassLists :
          ndjsonSaveOf(image, bs, cls, TRUE)
          => /\ result'.thrown
             /\ ndjson'.dataset = ndjson.dataset
             /\ ndjson'.imageRecords = ndjson.imageRecords]_vars

\* C14: while a save or a folder open is in flight, awaiting I/O, no second
\* one can start: at most one is in flight at any time.
C14_OneOperationInFlight == Len(inFlight) <= 1

\* the dirty flag and the snapshot are after the step what they were before
DirtyStateKept ==
    /\ currentImageModified' = currentImageModified
    /\ savedBoxesState' = savedBoxesState

\* C15: a save that throws leaves the dirty flag and the baseline snapshot
\* as they were, and so does every step of handleSave before the save has
\* completed: clearImageModified() only runs after a save that did not throw.
C15_FailedSaveKeepsDirtyState ==
    [][/\ saveRequested => DirtyStateKept
       /\ \A i \in 1..Len(inFlight) :
             /\ labelWriteSettlesOf(i, TRUE) => DirtyStateKept
             /\ classesWriteSettlesOf(i, TRUE) => DirtyStateKept
             /\ (labelWriteSettlesOf(i, FALSE) /\ Len(inFlight') = Len(inFlight))
                   => DirtyStateKept]_vars

\* a save has just failed and the current image is still dirty, its snapshot
\* still there: the save can be requested again
C15_Witness ==
    /\ result.op = "save"
    /\ result.thrown
    /\ currentImageId # NullId
    /\ currentImageModified
    /\ ~savedBoxesState.isNull
    /\ inFlight = <<>>

\* C16: a load during which the read of an existing annotation file fails
\* ends as a failed load for its caller; it does not go on as if the file
\* were not there.
C16_ReadFailureFailsLoad ==
    [][\A unreadable \in SUBSET DOMAIN folder.ndjson :
          (unreadable # {} /\ ndjsonLoadOf(unreadable)) => result'.thrown]_vars

\* a line that is a class id followed by four numeric fields
WellFormed(parts) ==
    /\ Len(parts) >= 5
    /\ parts[1].kind = "int"
    /\ \A k \in 2..5 : parts[k].kind \in {"int", "dec"}

\* C17: YOLO parse gives one box per well-formed line, in line order, and no
\* box for any other line: a line that is not a class id followed by four
\* numeric fields is skipped and the lines around it still yield their boxes.
C17_MalformedLinesSkipped ==
    [][\A path \in DOMAIN folder.labels :
          yoloParseOf(folder.labels[path])
          => LET valid == SelectSeq(folder.labels[path], WellFormed)
             IN  result'.boxes[1] =
                    [i \in 1..Len(valid) |->
                        YOLO_parseLine(yolo, valid[i], ImageWidth,
                                       ImageHeight)]]_vars

\* the class-list file as load() found it: its lines, none when neither
\* classes.txt nor labels/classes.txt gave any content
ClassListFile(unreadable) ==
    LET atRoot == ReadTextFile(folder.classes, "classes.txt", unreadable)
    IN  IF atRoot # <<>> THEN atRoot
        ELSE ReadTextFile(folder.classes, "labels/classes.txt", unreadable)

\* every line of every label file of the folder is well formed
WellFormedLabels ==
    \A path \in DOMAIN folder.labels :
        \A k \in 1..Len(folder.labels[path]) :
            WellFormed(folder.labels[path][k])

\* C18: over label files of well-formed lines, YOLO load returns class_0..class_max only when no class-list file
\* was found and some parsed classId exceeds 0; when a class-list file was
\* found the returned class list is exactly its names, and otherwise it is
\* ['object'].
C18_InferenceOnlyWithoutClassFile ==
    [][\A unreadable \in SUBSET (DOMAIN folder.classes \cup DOMAIN folder.labels) :
          (WellFormedLabels /\ yoloLoadOf(unreadable))
          => LET file == ClassListFile(unreadable)
                 ids == {c \in AllClassIds(result'.boxes) : ~IsNaN(c)}
                 max == MathMax(ids \cup {0})
             IN  result'.classes =
                    IF file # <<>>
                    THEN SelectSeq(file, LAMBDA line : line # "")
                    ELSE IF max > 0
                    THEN [k \in 1..(max + 1) |-> ClassName(k - 1)]
                    ELSE <<"object">>]_vars

\* the handler holds no class metadata: no dataset record, or a dataset
\* record with no class map or an empty one
NoClassMetadata(h) ==
    \/ h.dataset = NullRecord
    \/ "class_names" \notin DOMAIN h.dataset
    \/ h.dataset.class_names = EmptyMap

\* C19: when the annotation file an NDJSON load read carries no class
\* metadata and the load returned boxes, the class list the load returns is
\* class_0..class_max, max the largest classId among the loaded boxes.
C19_ClassesInferredWithoutMetadata ==
    [][\A unreadable \in SUBSET DOMAIN folder.ndjson :
          (/\ ndjsonLoadOf(unreadable)
           /\ NoClassMetadata(ndjson')
           /\ AllClassIds(result'.boxes) # {})
          => result'.classes =
                [k \in 1..(MathMax(AllClassIds(result'.boxes)) + 1) |->
                    ClassName(k - 1)]]_vars

\* C20: after a YOLO save that succeeded with a class list to which a class
\* was added, classes.txt holds every name of that list and a reload of the
\* folder returns a class list with every one of them.
C20_AddedClassPersisted ==
    [][\A image \in Range(FolderImages), bs \in CodecBoxLists,
          cls \in ClassLists, failing \in SUBSET {"label", "classes"} :
          (/\ Len(cls) >= 2
           /\ yoloSaveOf(image, bs, cls, failing)
           /\ ~result'.thrown)
          => LET reloaded == YOLO_load(yolo', folder', FolderImages, {})
             IN  /\ "classes.txt" \in DOMAIN folder'.classes
                 /\ Range(cls) \subseteq Range(folder'.classes["classes.txt"])
                 /\ Range(cls) \subseteq Range(reloaded.classes)]_vars

\* a normalized value lies in [0,1]
InUnitRange(v) == ~IsNaN(v) /\ 0 <= v /\ v <= 1000000

\* C21: every box handed to pixelsToNormalized, inside or outside the image,
\* gives centerX, centerY, width and height in [0,1].
C21_NormalizedInUnitRange ==
    result.op = "pixelsToNormalized"
    => /\ InUnitRange(result.normalized.centerX)
       /\ InUnitRange(result.normalized.centerY)
       /\ InUnitRange(result.normalized.width)
       /\ InUnitRange(result.normalized.height)

\* C22: a box of numbers that went through pixelsToNormalized and then
\* normalizedToPixels lies inside the image: x >= 0, y >= 0,
\* x + width <= imageWidth, y + height <= imageHeight, and its width and
\* height are not negative.
C22_ReloadedBoxInsideImage ==
    (result.op = "reloaded" /\ result.boxes[1] \in DrawnBoxes)
    => LET box == result.boxes[2]
       IN  /\ box.x >= 0
           /\ box.y >= 0
           /\ box.x + box.width <= 1000 * result.size[1]
           /\ box.y + box.height <= 1000 * result.size[2]
           /\ box.width >= 0
           /\ box.height >= 0

\* the box lies inside an image of the given size
InsideImage(box, size) ==
    /\ box.x >= 0
    /\ box.y >= 0
    /\ box.width >= 0
    /\ box.height >= 0
    /\ box.x + box.width <= 1000 * size[1]
    /\ box.y + box.height <= 1000 * size[2]

\* |a - b| <= 1 pixel
WithinOnePixel(a, b) == a - b <= 1000 /\ b - a <= 1000

\* C23: a box inside the image that went through pixelsToNormalized and
\* then normalizedToPixels has x, y, width and height each within one pixel
\* of the original.
C23_RoundTripWithinOnePixel ==
    (result.op = "reloaded" /\ InsideImage(result.boxes[1], result.size))
    => LET original == result.boxes[1]
           box == result.boxes[2]
       IN  /\ WithinOnePixel(box.x, original.x)
           /\ WithinOnePixel(box.y, original.y)
           /\ WithinOnePixel(box.width, original.width)
           /\ WithinOnePixel(box.height, original.height)

C23_Witness ==
    /\ result.op = "reloaded"
    /\ InsideImage(result.boxes[1], result.size)
    /\ result.boxes[1].width > 0
    /\ result.boxes[1].x > 0
    /\ result.boxes[2].x = result.boxes[1].x
    /\ result.boxes[2].width = result.boxes[1].width

\* an NDJSON image record with boxes [[0, 0.5, 0.5, 0.3, 0.4]] was loaded
\* for a 640x480 image
LoadedTestRecord ==
    /\ result.op = "parseBoxes"
    /\ result.input = <<NDJSONBox(0)>>
    /\ result.size = <<640, 480>>

\* C24 as the code has it: the record gives the one pixel box
\* {classId: 0, x: 224, y: 144, width: 192, height: 192}.
C24_ParsedPixelBox ==
    LoadedTestRecord
    => result.boxes = <<[classId |-> 0, x |-> 224000, y |-> 144000,
                         width |-> 192000, height |-> 192000]>>

C24_Witness == LoadedTestRecord /\ Len(result.boxes) = 1

\* C24 as stated: the record gives the pixel box
\* {classId: 0, x: 176, y: 168, width: 192, height: 192}.
C24_ParsedPixelBoxAsStated ==
    LoadedTestRecord
    => result.boxes = <<[classId |-> 0, x |-> 176000, y |-> 168000,
                         width |-> 192000, height |-> 192000]>>

\* the fields of an image record that the NDJSON codec writes itself
OwnedFields == {"type", "file", "width", "height", "annotations"}

\* C25: an NDJSON save of an image that has a record keeps every field of
\* that record other than type, file, width, height and annotations, with
\* its value, in the record it saves.
C25_ForeignFieldsKept ==
    [][\A image \in Range(FolderImages), bs \in CodecBoxLists,
         cls \in ClassLists, writeFails \in BOOLEAN :
          (/\ image.fileName \in DOMAIN ndjson.imageRecords
           /\ ndjsonSaveOf(image, bs, cls, writeFails))
          => LET existing == ndjson.imageRecords[image.fileName]
                 saved == ndjson'.imageRecords[image.fileName]
             IN  \A f \in DOMAIN existing \ OwnedFields :
                    f \in DOMAIN saved /\ saved[f] = existing[f]]_vars

\* the annotation file an NDJSON load reads, none when no name gave content
AnnotationFileRead(unreadable) ==
    LET found == FoundNames(folder.ndjson, NDJSON_possibleNames, unreadable)
    IN  IF found = <<>> THEN <<>> ELSE folder.ndjson[found[1]]

\* C26: an NDJSON load of a file with lines that are no records does not
\* fail: the handler holds exactly the image records of the file, under
\* their file names, and the dataset record of the file, or, when the file
\* has none, a dataset record with an empty class map.
C26_BadLinesSkipped ==
    [][\A unreadable \in SUBSET DOMAIN folder.ndjson :
          (ndjsonLoadOf(unreadable) /\ AnnotationFileRead(unreadable) # <<>>)
          => LET content == AnnotationFileRead(unreadable)
                 imageLines == {i \in 1..Len(content) : content[i].type = "image"}
                 datasets == {i \in 1..Len(content) :
                                 content[i].type = "dataset"}
             IN  /\ ~result'.thrown
                 /\ DOMAIN ndjson'.imageRecords =
                       {content[i].file : i \in imageLines}
                 /\ \A i \in imageLines :
                       ndjson'.imageRecords[content[i].file] = content[i]
                 /\ \A i \in datasets : ndjson'.dataset = content[i]
                 /\ datasets = {}
                    => ndjson'.dataset = [type |-> "dataset", task |-> "detect",
                                          class_names |-> EmptyMap]]_vars

\* a file with a line that is no record between a dataset record and an
\* image record was loaded
C26_Witness ==
    /\ result.op = "load"
    /\ \E name \in DOMAIN folder.ndjson :
          /\ Len(folder.ndjson[name]) >= 3
          /\ folder.ndjson[name][2] = BadLine
          /\ ndjson.annotationFile = name
    /\ ndjson.dataset.type = "dataset"
    /\ "a.jpg" \in DOMAIN ndjson.imageRecords

\* file name f comes before file name g
Before(f, g) ==
    \E i, j \in 1..Len(SortedFileNames) :
        i < j /\ SortedFileNames[i] = f /\ SortedFileNames[j] = g

\* the dataset record, then one image record for each record of the
\* handler h, by ascending file name
DatasetThenSortedImages(content, h) ==
    /\ Len(content) = 1 + Cardinality(DOMAIN h.imageRecords)
    /\ content[1].type = "dataset"
    /\ \A i \in 2..Len(content) :
          /\ content[i].type = "image"
          /\ content[i].file \in DOMAIN h.imageRecords
    /\ \A i, j \in 2..Len(content) :
          i < j => Before(content[i].file, content[j].file)

\* C27: the file an NDJSON save writes, after whatever loads and saves came
\* before, has the dataset record as its first line and then exactly one
\* line per image record, by ascending file name.
C27_DatasetFirstImagesSorted ==
    [][\A image \in Range(FolderImages), bs \in CodecBoxLists,
         cls \in ClassLists :
          ndjsonSaveOf(image, bs, cls, FALSE)
          => DatasetThenSortedImages(folder'.ndjson[ndjson'.annotationFile],
                                     ndjson')]_vars

\* a save wrote a file of a dataset record and two image records
C27_Witness ==
    /\ result.op = "save"
    /\ ~result.thrown
    /\ ndjson.annotationFile \in DOMAIN folder.ndjson
    /\ Len(folder.ndjson[ndjson.annotationFile]) = 3
    /\ Cardinality(DOMAIN ndjson.imageRecords) = 2

WrittenCOCOFiles ==
    {name \in DOMAIN folder'.coco :
        name \notin DOMAIN folder.coco
        \/ folder'.coco[name] # folder.coco[name]}

\* C29: a COCO save writes the document to the file the last load read it
\* from, and to the fallback name annotations.json only when that load
\* found no file.
C29_SavedToLoadedFile ==
    [][(handleSave /\ result.op = "load")
       => LET target == IF result.file = "" THEN "annotations.json"
                        ELSE result.file
          IN  /\ WrittenCOCOFiles \subseteq {target}
              /\ target \in DOMAIN folder'.coco
              /\ folder'.coco[target] = coco'.data]_vars

\* C30: addBox with a box id that a stored box already has adds the box
\* under another id: the stored box is still there with its values and the
\* store holds one box more.
C30_AddBoxKeepsExistingBox ==
    [][\A id \in SuppliedBoxIds \ {NoId}, c \in ClassIds, g \in Geometries,
         img \in DOMAIN images :
          (id \in DOMAIN boxes /\ addBoxOf(id, c, g, img))
          => /\ id \in DOMAIN boxes'
             /\ boxes'[id] = boxes[id]
             /\ Cardinality(DOMAIN boxes') = Cardinality(DOMAIN boxes) + 1]_vars

-----------------------------------------------------------------------------
(* The box editor (BoxEditor in UIController.js) over the store.            *)
(*                                                                          *)
(* The canvas shows the current image at zoom 1 without pan, so a mouse     *)
(* position is the image coordinate screenToImage() gives for it, in whole  *)
(* pixels; a position outside the image is a coordinate below 0 or beyond   *)
(* the image's size.  The editor's fields and the store's selectedBoxId are *)
(* the fields mode, startX, startY, dragStartBox, resizeHandle and          *)
(* selectedBoxId of the record result; its field drags counts the drags     *)
(* begun, for the bound only.                                               *)

\* where the mouse goes down, moves to and comes up: inside the image, on
\* its border, and outside it on every side
PointXs == {0 - 20, 100, 400, 1040}
PointYs == {0 - 10, 300, 830}
Points == {[x |-> x, y |-> y] : x \in PointXs, y \in PointYs}

MinBoxSize == 5
HandleSize == 8

Min2(a, b) == IF a < b THEN a ELSE b
Max2(a, b) == IF a > b THEN a ELSE b
Abs(a) == IF a < 0 THEN 0 - a ELSE a

\* dragStartBox = null, resizeHandle = null
NoBox == [id |-> NoId]
NoHandle == "none"

\* the fields the constructor of BoxEditor sets, and no box selected
BoxEditor ==
    [op |-> "editor", thrown |-> FALSE, boxes |-> EmptyMap, classes |-> <<>>,
     mode |-> "idle", startX |-> 0, startY |-> 0, dragStartBox |-> NoBox,
     resizeHandle |-> NoHandle, selectedBoxId |-> NoId, drags |-> 0]

\* getHandlePositions(x, y, width, height), in its order; the midpoint of an
\* edge of odd length is taken at the whole pixel below it
GetHandlePositions(x, y, width, height) ==
    <<[type |-> "nw", x |-> x, y |-> y],
      [type |-> "n", x |-> x + width \div 2, y |-> y],
      [type |-> "ne", x |-> x + width, y |-> y],
      [type |-> "e", x |-> x + width, y |-> y + height \div 2],
      [type |-> "se", x |-> x + width, y |-> y + height],
      [type |-> "s", x |-> x + width \div 2, y |-> y + height],
      [type |-> "sw", x |-> x, y |-> y + height],
      [type |-> "w", x |-> x, y |-> y + height \div 2]>>

\* store.getSelectedBox()
GetSelectedBox(s, e) ==
    IF e.selectedBoxId \in DOMAIN s.boxes THEN s.boxes[e.selectedBoxId]
    ELSE NoBox

\* getHandleAt(screenX, screenY): the first handle of the selected box within
\* handleSize of the position, null when there is none
GetHandleAt(s, e, p) ==
    LET selectedBox == GetSelectedBox(s, e)
        handles == IF selectedBox = NoBox THEN <<>>
                   ELSE GetHandlePositions(selectedBox.x, selectedBox.y,
                                           selectedBox.width,
                                           selectedBox.height)
        near == {i \in 1..Len(handles) :
                   (p.x - handles[i].x) * (p.x - handles[i].x)
                   + (p.y - handles[i].y) * (p.y - handles[i].y)
                   <= HandleSize * HandleSize}
    IN  IF near = {} THEN NoHandle
        ELSE handles[CHOOSE i \in near : \A j \in near : i <= j].type

\* getBoxAt(imageX, imageY): the topmost box of the current image that holds
\* the position
GetBoxAt(s, p) ==
    LET bs == GetBoxesForImage(s, s.currentImageId)
        hit == {i \in 1..Len(bs) :
                  /\ p.x >= bs[i].x /\ p.x <= bs[i].x + bs[i].width
                  /\ p.y >= bs[i].y /\ p.y <= bs[i].y + bs[i].height}
    IN  IF s.currentImageId = NullId \/ hit = {} THEN NoBox
        ELSE bs[CHOOSE i \in hit : \A j \in hit : j <= i]

\* finishDrawing(endX, endY): the box handed to addBox; NoBox when the drag
\* is below the minimum size
DrawnBox(e, endX, endY, currentImage, classId) ==
    LET width == Abs(endX - e.startX)
        height == Abs(endY - e.startY)
    IN  IF width < MinBoxSize \/ height < MinBoxSize THEN NoBox
        ELSE [id |-> NoId, classId |-> classId,
              x |-> Max2(0, Min2(e.startX, endX)),
              y |-> Max2(0, Min2(e.startY, endY)),
              width |-> Min2(width, currentImage.width),
              height |-> Min2(height, currentImage.height),
              imageId |-> currentImage.id]

\* handleResize(currentX, currentY) up to `// Ensure minimum size`: the
\* switch over the handle's type
ResizedByHandle(box, handle, dx, dy) ==
    LET same == [x |-> box.x, y |-> box.y, width |-> box.width,
                 height |-> box.height]
    IN  CASE handle = "nw" ->
                [x |-> box.x + dx, y |-> box.y + dy,
                 width |-> box.width - dx, height |-> box.height - dy]
          [] handle = "n" ->
                [same EXCEPT !.y = box.y + dy, !.height = box.height - dy]
          [] handle = "ne" ->
                [same EXCEPT !.y = box.y + dy, !.width = box.width + dx,
                             !.height = box.height - dy]
          [] handle = "e" ->
                [same EXCEPT !.width = box.width + dx]
          [] handle = "se" ->
                [same EXCEPT !.width = box.width + dx,
                             !.height = box.height + dy]
          [] handle = "s" ->
                [same EXCEPT !.height = box.height + dy]
          [] handle = "sw" ->
                [same EXCEPT !.x = box.x + dx, !.width = box.width - dx,
                             !.height = box.height + dy]
          [] handle = "w" ->
                [same EXCEPT !.x = box.x + dx, !.width = box.width - dx]
          [] OTHER -> same

\* handleResize(currentX, currentY): the properties handed to updateBox
HandleResize(e, currentX, currentY, currentImage) ==
    LET box == e.dragStartBox
        r == ResizedByHandle(box, e.resizeHandle, currentX - e.startX,
                             currentY - e.startY)
        \* Ensure minimum size
        newWidth == IF r.width < MinBoxSize THEN MinBoxSize ELSE r.width
        newX == IF r.width < MinBoxSize THEN box.x ELSE r.x
        newHeight == IF r.height < MinBoxSize THEN MinBoxSize ELSE r.height
        newY == IF r.height < MinBoxSize THEN box.y ELSE r.y
        \* Constrain to image bounds
        x == Max2(0, Min2(newX, currentImage.width - newWidth))
        y == Max2(0, Min2(newY, currentImage.height - newHeight))
    IN  [x |-> x, y |-> y,
         width |-> Min2(newWidth, currentImage.width - x),
         height |-> Min2(newHeight, currentImage.height - y)]

\* handleMouseMove in mode 'moving': the properties handed to updateBox
HandleMove(e, currentX, currentY, currentImage) ==
    LET newX == e.dragStartBox.x + (currentX - e.startX)
        newY == e.dragStartBox.y + (currentY - e.startY)
    IN  [x |-> Max2(0, Min2(newX, currentImage.width
                                    - e.dragStartBox.width)),
         y |-> Max2(0, Min2(newY, currentImage.height
                                    - e.dragStartBox.height))]

\* the folder's first image is shown and nothing is drawn yet
InitEditor ==
    /\ StartsAs([SetCurrentImage(AddImage(NotatoApp), 1)
                    EXCEPT !.delivered = <<>>])
    /\ disk = <<>>
    /\ folder = EmptyFolder

\* what every action of the editor leaves alone
editorFrame ==
    UNCHANGED <<coco, disk, firstLoad, loads, saves, folder, yolo, ndjson,
                inFlight>>

\* new BoxEditor(canvas, imageCanvas, store)
newBoxEditor ==
    /\ result.op = "none"
    /\ result' = BoxEditor
    /\ UNCHANGED storeVars
    /\ editorFrame

\* the positions the mouse may go down at: any of Points, and the handles of
\* the selected box
MouseDownPoints ==
    Points \cup
    (LET selectedBox == GetSelectedBox(Store, result)
     IN  IF selectedBox = NoBox THEN {}
         ELSE {[x |-> h.x, y |-> h.y] :
                 h \in Range(GetHandlePositions(selectedBox.x, selectedBox.y,
                                                selectedBox.width,
                                                selectedBox.height))})

\* handleMouseDown(e) without the space key: on a handle of the selected box
mouseDownOnHandleOf(p) ==
    /\ result.op = "editor" /\ result.mode = "idle"
    /\ GetHandleAt(Store, result, p) # NoHandle
    /\ result' = [result EXCEPT
                    !.mode = "resizing", !.drags = @ + 1,
                    !.resizeHandle = GetHandleAt(Store, result, p),
                    !.startX = p.x, !.startY = p.y,
                    !.dragStartBox = GetSelectedBox(Store, result)]
    /\ UNCHANGED storeVars
    /\ editorFrame

\* handleMouseDown(e): on a box and on none of the handles
mouseDownOnBoxOf(p) ==
    /\ result.op = "editor" /\ result.mode = "idle"
    /\ GetHandleAt(Store, result, p) = NoHandle
    /\ GetBoxAt(Store, p) # NoBox
    /\ result' = [result EXCEPT
                    !.mode = "moving", !.drags = @ + 1,
                    !.selectedBoxId = GetBoxAt(Store, p).id,
                    !.startX = p.x, !.startY = p.y,
                    !.dragStartBox = GetBoxAt(Store, p)]
    /\ UNCHANGED storeVars
    /\ editorFrame

\* handleMouseDown(e): elsewhere, a new box is begun
mouseDownDrawsOf(p) ==
    /\ result.op = "editor" /\ result.mode = "idle"
    /\ GetHandleAt(Store, result, p) = NoHandle
    /\ GetBoxAt(Store, p) = NoBox
    /\ result' = [result EXCEPT
                    !.mode = "drawing", !.drags = @ + 1, !.selectedBoxId = NoId,
                    !.startX = p.x, !.startY = p.y]
    /\ UNCHANGED storeVars
    /\ editorFrame

handleMouseDown ==
    /\ result.op = "editor"
    /\ result.drags < MaxDrags
    /\ \E p \in MouseDownPoints :
          \/ mouseDownOnHandleOf(p)
          \/ mouseDownOnBoxOf(p)
          \/ mouseDownDrawsOf(p)

\* handleMouseMove(e) in mode 'moving'
mouseMoveMovesOf(p) ==
    /\ result.op = "editor" /\ result.mode = "moving"
    /\ Commit(UpdateBox(Store, result.selectedBoxId,
                        HandleMove(result, p.x, p.y, Image(currentImageId))))
    /\ Edited(TRUE)
    /\ UNCHANGED result
    /\ editorFrame

\* handleMouseMove(e) in mode 'resizing': handleResize
handleResizeOf(p) ==
    /\ result.op = "editor" /\ result.mode = "resizing"
    /\ Commit(UpdateBox(Store, result.selectedBoxId,
                        HandleResize(result, p.x, p.y, Image(currentImageId))))
    /\ Edited(TRUE)
    /\ UNCHANGED result
    /\ editorFrame

handleMouseMove ==
    \E p \in Points : mouseMoveMovesOf(p) \/ handleResizeOf(p)

\* handleMouseUp(e) in mode 'drawing': finishDrawing
finishDrawingOf(p, classId) ==
    LET box == DrawnBox(result, p.x, p.y, Image(currentImageId), classId)
        s == IF box = NoBox THEN Store
             ELSE AddBox(Store, box)
    IN  /\ result.op = "editor" /\ result.mode = "drawing"
        /\ box # NoBox => /\ nextBoxId <= MaxBoxId
                          /\ Cardinality(DOMAIN boxes) < MaxBoxes
        /\ Commit(s)
        /\ Edited(TRUE)
        /\ result' = [result EXCEPT
                        !.mode = "idle",
                        !.selectedBoxId = IF box = NoBox THEN @
                                          ELSE nextBoxId]
        /\ editorFrame

\* handleMouseUp(e) in mode 'moving' or 'resizing'
mouseUpEndsDrag ==
    /\ result.op = "editor" /\ result.mode \in {"moving", "resizing"}
    /\ result' = [result EXCEPT !.mode = "idle", !.dragStartBox = NoBox,
                                !.resizeHandle = NoHandle]
    /\ UNCHANGED storeVars
    /\ editorFrame

handleMouseUp ==
    \/ \E p \in Points, classId \in ClassIds : finishDrawingOf(p, classId)
    \/ mouseUpEndsDrag

NextEditor ==
    \/ newBoxEditor
    \/ handleMouseDown
    \/ handleMouseMove
    \/ handleMouseUp

SpecEditor == InitEditor /\ [][NextEditor]_vars

\* the box lies inside the image
BoxInsideImage(box, image) ==
    /\ box.x >= 0
    /\ box.y >= 0
    /\ box.x + box.width <= image.width
    /\ box.y + box.height <= image.height

\* C31: every box created by drawing lies inside the current image, wherever
\* the drag started and ended
C31_DrawnBoxInsideImage ==
    [][\A p \in Points, classId \in ClassIds :
          (finishDrawingOf(p, classId) /\ nextBoxId' # nextBoxId)
          => BoxInsideImage(boxes'[nextBoxId], Image(currentImageId))]_vars

\* the edges opposite the handle are where they were in the box before
AnchoredOpposite(handle, before, after) ==
    /\ handle \in {"w", "nw", "sw"}
          => after.x + after.width = before.x + before.width
    /\ handle \in {"e", "ne", "se"} => after.x = before.x
    /\ handle \in {"n", "nw", "ne"}
          => after.y + after.height = before.y + before.height
    /\ handle \in {"s", "se", "sw"} => after.y = before.y

\* C32: during a resize the edge or corner opposite the dragged handle stays
\* at its original position for every drag, past the image border and past
\* the opposite edge included
C32_OppositeEdgeAnchored ==
    [][\A p \in Points :
          (handleResizeOf(p) /\ result.selectedBoxId \in DOMAIN boxes)
          => AnchoredOpposite(result.resizeHandle, result.dragStartBox,
                              boxes'[result.selectedBoxId])]_vars

-----------------------------------------------------------------------------
(* Edits and image changes while a save awaits its write *)

\* the label file of the current image holds the image's boxes as the store
\* has them
CurrentBoxesWritten ==
    LET image == Image(currentImageId)
        path == YOLO_getLabelPath(image.fileName)
    IN  /\ path \in DOMAIN folder.labels
        /\ folder.labels[path]
             = YOLO_stringify(CodecBoxes(GetBoxesForImage(Store, image.id)),
                              image.width, image.height)

\* C33: whatever was drawn and whichever image was made current while
\* handleSave awaited its writes, once the save has completed a clean dirty
\* flag implies that the current image's boxes in memory are the boxes last
\* written to disk for it
C33_CleanAfterSaveMeansWritten ==
    (/\ result.op = "save" /\ ~result.thrown
     /\ currentImageId # NullId
     /\ ~currentImageModified)
    => CurrentBoxesWritten

-----------------------------------------------------------------------------
(* Annotation ids of the COCO document *)

\* the values of a list are pairwise distinct
Distinct(seq) == \A i, j \in 1..Len(seq) : i # j => seq[i] # seq[j]

AnnotationIds(anns) == [i \in 1..Len(anns) |-> anns[i].id]

\* the ids the caller put on the boxes, in their order
SuppliedIds(bs) ==
    LET withId == SelectSeq(bs, HasTruthyId)
    IN  [i \in 1..Len(withId) |-> withId[i].id]

\* C34: after any sequence of parse and setBoxesForImage calls the annotation
\* ids of the document are pairwise distinct: when the document's ids are
\* distinct and the caller's ids are distinct from each other and from the
\* ids of the other images' annotations, setBoxesForImage leaves the ids
\* distinct
C34_AnnotationIdsDistinct ==
    [][\A f \in 1..Len(Files), bs \in SeqsUpTo(InputBoxes, MaxInputBoxes) :
          (/\ setBoxesForImageOf(Files[f], bs)
           /\ Distinct(AnnotationIds(coco.data.annotations))
           /\ Distinct(SuppliedIds(bs)
                       \o AnnotationIds(AnnotationsOfOthers(coco, Files[f]))))
          => Distinct(AnnotationIds(coco'.data.annotations))]_vars

-----------------------------------------------------------------------------
(* The dirty flag and the current image *)

\* C35: the dirty flag is true only while some image is current:
\* currentImageId = null implies currentImageModified = false
C35_DirtyOnlyWithCurrentImage ==
    currentImageId = NullId => ~currentImageModified

-----------------------------------------------------------------------------
(* The frame of a rollback *)

\* each image's list names the boxes of that image and no other box
ListsNameOwnBoxes ==
    \A img \in DOMAIN images :
        Range(images[img]) = {b \in DOMAIN boxes : boxes[b].imageId = img}

\* C36: a rollback triggered by setCurrentImage changes only the boxes of the
\* previously current image: the boxes (ids and values) of every other image
\* and the class list are the same after the call as before it; stated for
\* a store whose lists name their own boxes
C36_RollbackKeepsOtherImages ==
    [][\A img \in DOMAIN images :
          (/\ setCurrentImageOf(img)
           /\ currentImageId # NullId
           /\ currentImageModified
           /\ ListsNameOwnBoxes)
          => /\ classes' = classes
             /\ \A other \in DOMAIN images \ {currentImageId} :
                   GetBoxesForImage([images |-> images', boxes |-> boxes'],
                                    other)
                   = GetBoxesForImage(Store, other)]_vars

-----------------------------------------------------------------------------
(* Label paths of the images of a folder (FileManager.js, main.js).         *)
(*                                                                          *)
(* A file name is the sequence of its parts, "." and "/" being parts of     *)
(* their own and every other part free of both, so that lastIndexOf and     *)
(* substring, which cut at "." and "/" only, are computed on the parts.     *)

\* the entries a directory may hold: images that differ in the extension only,
\* images with a dot in the base name, and files that are no images
EntryNames ==
    {<<"a", ".", "jpg">>, <<"a", ".", "png">>, <<"b", ".", "jpg">>,
     <<"a", ".", "b", ".", "jpg">>, <<"a", ".", "b", ".", "png">>,
     <<"b", ".", "txt">>, <<"readme">>}

ImageExtensions == {"jpg", "jpeg", "png", "gif", "webp", "bmp"}

\* str.lastIndexOf(part): the position from 1 of the last occurrence, 0 for
\* JavaScript's -1
LastIndexOf(str, part) ==
    LET at == {i \in 1..Len(str) : str[i] = part}
    IN  IF at = {} THEN 0 ELSE CHOOSE i \in at : \A j \in at : j <= i

\* getFileExtension(fileName): split('.') and the last part, '' when the
\* name has no dot; the names here are in lower case
GetFileExtension(fileName) ==
    IF LastIndexOf(fileName, ".") = 0 THEN ""
    ELSE IF LastIndexOf(fileName, ".") = Len(fileName) THEN ""
    ELSE fileName[Len(fileName)]

\* getYOLOLabelPath(imagePath)
GetYOLOLabelPath(imagePath) ==
    LET fileName == SubSeq(imagePath, LastIndexOf(imagePath, "/") + 1,
                           Len(imagePath))
        baseName == SubSeq(fileName, 1, LastIndexOf(fileName, ".") - 1)
    IN  baseName \o <<".", "txt">>

\* scanDirectory(dirHandle): the image files of the root folder, the path of
\* each being its name
ScanDirectory(entries) ==
    {[name |-> e, path |-> e] :
        e \in {n \in entries : GetFileExtension(n) \in ImageExtensions}}

\* the folders a user may pick
Directories == {d \in SUBSET EntryNames : Cardinality(d) <= MaxFiles}

InitLabelPath ==
    /\ StartsAs(NotatoApp)
    /\ disk = <<>>
    /\ \E d \in Directories :
          folder = [ndjson |-> EmptyMap, classes |-> EmptyMap,
                    labels |-> EmptyMap, coco |-> EmptyMap, entries |-> d]

\* openFolder(): the image files found, as handleOpenFolder adds them to the
\* store
scanDirectory ==
    /\ result.op = "none"
    /\ result' = [op |-> "openFolder", thrown |-> FALSE, boxes |-> EmptyMap,
                  classes |-> <<>>, files |-> ScanDirectory(folder.entries)]
    /\ UNCHANGED <<storeVars, coco, disk, firstLoad, loads, saves, folder,
                   yolo, ndjson, inFlight>>

\* saveYOLO(image), image one of the folder with the boxes bs
saveYOLOOf(image, bs) ==
    LET content == YOLO_stringify(bs, ImageWidth, ImageHeight)
        labelPath == GetYOLOLabelPath(image.path)
        classesExist == FileExists(folder.classes, "classes.txt")
    IN  /\ result.op \in {"openFolder", "saveYOLO"}
        /\ image \in result.files
        /\ folder' = [folder EXCEPT
                        !.labels = MapSet(@, labelPath, content),
                        !.classes =
                            IF classesExist THEN @
                            ELSE MapSet(@, "classes.txt",
                                        YOLO_stringifyClasses(classes))]
        /\ yolo' = IF classesExist THEN yolo
                   ELSE [yolo EXCEPT !.classes = classes]
        /\ result' = [result EXCEPT !.op = "saveYOLO"]
        /\ UNCHANGED <<storeVars, coco, disk, firstLoad, loads, saves,
                       ndjson, inFlight>>

saveYOLO ==
    /\ result.op \in {"openFolder", "saveYOLO"}
    /\ \E image \in result.files, bs \in {<<>>, <<CodecBox(0)>>} :
          saveYOLOOf(image, bs)

NextLabelPath == scanDirectory \/ saveYOLO

SpecLabelPath == InitLabelPath /\ [][NextLabelPath]_vars

\* the label file of an image: what it holds, <<"none">> when there is none
LabelFileOf(files, image) ==
    IF GetYOLOLabelPath(image.path) \in DOMAIN files
    THEN <<"file", files[GetYOLOLabelPath(image.path)]>>
    ELSE <<"none">>

\* C37: two different images of the same opened folder never map to the same
\* YOLO label path, so saving one image's labels never overwrites the label
\* file of another image
C37_LabelPathsDistinct ==
    [][\A image \in ScanDirectory(folder.entries),
         bs \in {<<>>, <<CodecBox(0)>>} :
          saveYOLOOf(image, bs)
          => \A other \in ScanDirectory(folder.entries) \ {image} :
                /\ GetYOLOLabelPath(other.path) # GetYOLOLabelPath(image.path)
                /\ LabelFileOf(folder'.labels, other)
                     = LabelFileOf(folder.labels, other)]_vars

-----------------------------------------------------------------------------
(* COCO parse of any text (COCOHandler.js).                                 *)
(*                                                                          *)
(* A text is the record of what JSON.parse makes of it: json is "invalid"   *)
(* for a text JSON.parse rejects, "null" for the text `null`, and "object"  *)
(* for an object.  Of an object, value holds the three arrays and absent    *)
(* names the fields the object does not have.                               *)

NoFields == [images |-> <<>>, annotations |-> <<>>, categories |-> <<>>]

FieldNames == {"images", "annotations", "categories"}

NotJSON == [json |-> "invalid", value |-> NoFields, absent |-> FieldNames]

JSONNull == [json |-> "null", value |-> NoFields, absent |-> FieldNames]

JSONObject(value, absent) ==
    [json |-> "object", value |-> value, absent |-> absent]

\* the texts given to parse: the test's 'not valid json', `null`, `{}`, the
\* documents, and the documents without annotations or without categories
Contents ==
    {NotJSON, JSONNull, JSONObject(NoFields, FieldNames)}
        \cup {JSONObject(doc, {}) : doc \in Documents}
        \cup {JSONObject([doc EXCEPT ![f] = <<>>], {f}) :
                 doc \in Documents, f \in {"annotations", "categories"}}

\* this.data = JSON.parse(content), of an object, and then
\* if (!this.data.<field>) this.data.<field> = []
WithRequiredFields(content) ==
    [f \in FieldNames |->
        IF f \in content.absent THEN <<>> ELSE content.value[f]]

\* parse(content) of any text: the handler it leaves, and whether it threw
\* 'Invalid COCO JSON format'
COCO_parseContent(h, content) ==
    IF content.json = "invalid"
    THEN \* JSON.parse throws before this.data is assigned
         [handler |-> h, thrown |-> TRUE]
    ELSE IF content.json = "null"
    THEN \* this.data = null, and this.data.images throws
         [handler |-> [h EXCEPT !.data = NullRecord], thrown |-> TRUE]
    ELSE [handler |-> COCO_parse(h, WithRequiredFields(content)),
          thrown |-> FALSE]

parseContentOf(content) ==
    LET r == COCO_parseContent(coco, content)
    IN  /\ coco' = r.handler
        /\ result' = [op |-> "parse", thrown |-> r.thrown, boxes |-> EmptyMap,
                      classes |-> <<>>]
        /\ UNCHANGED <<storeVars, disk, firstLoad, loads, saves, folder,
                       yolo, ndjson, inFlight>>

parseContent == \E content \in Contents : parseContentOf(content)

\* new COCOHandler() before a folder is loaded
newCOCOHandler ==
    /\ coco' = COCO_initEmpty
    /\ result' = NoResult
    /\ UNCHANGED <<storeVars, disk, firstLoad, loads, saves, folder, yolo,
                   ndjson, inFlight>>

NextParse == parseContent \/ newCOCOHandler

SpecParse == Init /\ [][NextParse]_vars

\* C38: whenever COCO parse throws 'Invalid COCO JSON format', the handler's
\* document, file-name-to-id map and next-id counters are left exactly as
\* they were before the call
C38_FailedParseLeavesHandler ==
    [][\A content \in Contents :
          (parseContentOf(content) /\ result'.thrown)
          => /\ coco'.data = coco.data
             /\ coco'.imageIdMap = coco.imageIdMap
             /\ coco'.nextImageId = coco.nextImageId
             /\ coco'.nextAnnotationId = coco.nextAnnotationId]_vars

-----------------------------------------------------------------------------
(* Listeners that unsubscribe during a notification (AnnotationStore).      *)
(*                                                                          *)
(* A callback is named by what it does when it is invoked: "render" calls   *)
(* nothing of the store, "once" calls off() for itself and                  *)
(* "unsubscribeRender" calls off() for the callback "render", each for the  *)
(* event it was invoked for.                                                *)

Callbacks == {"render", "once", "unsubscribeRender"}

\* the events the callbacks are registered for
NotifiedEvents == {"boxes", "clear"}

\* the callback off() is called for when the callback is invoked, "" when
\* it calls none
Unsubscribes(callback) ==
    CASE callback = "once" -> "once"
      [] callback = "unsubscribeRender" -> "render"
      [] OTHER -> ""

\* callbacks.indexOf(callback), from 1; 0 for JavaScript's -1
IndexOf(callbacks, callback) ==
    LET at == {i \in 1..Len(callbacks) : callbacks[i] = callback}
    IN  IF at = {} THEN 0 ELSE CHOOSE i \in at : \A j \in at : i <= j

\* off(event, callback)
Off(s, event, callback) ==
    LET callbacks == s.listeners[event]
        index == IndexOf(callbacks, callback)
    IN  IF index > 0
        THEN [s EXCEPT !.listeners[event] =
                          SubSeq(callbacks, 1, index - 1)
                          \o SubSeq(callbacks, index + 1, Len(callbacks))]
        ELSE s

\* callbacks.forEach(callback => callback(data)) from index k on: forEach
\* reads the length once, visits the indices below it in order and skips an
\* index the array no longer has; the callback invoked may call off()
RECURSIVE ForEachCallback(_, _, _, _)
ForEachCallback(s, event, k, len) ==
    IF k > len THEN s
    ELSE IF k > Len(s.listeners[event])
    THEN ForEachCallback(s, event, k + 1, len)
    ELSE LET callback == s.listeners[event][k]
             s1 == [s EXCEPT !.delivered =
                       Append(@, [cb |-> callback, event |-> event,
                                  modified |-> s.currentImageModified])]
             s2 == IF Unsubscribes(callback) = "" THEN s1
                   ELSE Off(s1, event, Unsubscribes(callback))
         IN  ForEachCallback(s2, event, k + 1, len)

\* notify(event, data) with callbacks that may call off()
NotifyForEach(s, event) ==
    ForEachCallback(s, event, 1, Len(s.listeners[event]))

onOf(event, callback) ==
    /\ Len(listeners[event]) < MaxListeners
    /\ Commit(On(Store, event, callback))
    /\ UNCHANGED <<hist, appVars>>

on == \E event \in NotifiedEvents, callback \in Callbacks :
        onOf(event, callback)

offOf(event, callback) ==
    /\ Commit(Off(Store, event, callback))
    /\ UNCHANGED <<hist, appVars>>

off == \E event \in NotifiedEvents, callback \in Callbacks :
         offOf(event, callback)

notifyOf(event) ==
    /\ Commit(NotifyForEach(Store, event))
    /\ UNCHANGED <<hist, appVars>>

notify == \E event \in NotifiedEvents : notifyOf(event)

NextNotify == on \/ off \/ notify

SpecNotify == Init /\ [][NextNotify]_vars

\* how often v occurs in seq
Count(seq, v) == Cardinality({i \in 1..Len(seq) : seq[i] = v})

\* C39: every callback registered for an event when notify begins is invoked
\* exactly once for that notification (once for each time it is
\* registered), even if a callback calls off() for itself or for another
\* listener while the notification is being delivered
C39_EveryListenerInvokedOnce ==
    [][\A event \in NotifiedEvents :
          notifyOf(event)
          => \A callback \in Range(listeners[event]) :
                Count([i \in 1..Len(delivered') |-> delivered'[i].cb],
                      callback)
                = Count(listeners[event], callback)]_vars

====
